---- MODULE Spec2Model ----
(***************************************************************************)
(* Broken-page crawler: URL normalisation and deduplication                *)
(* (app/utils/urlCrawler.ts), the crawl itself with the                    *)
(* broken-page-scanner endpoint, and scan-all with the scan-result store.  *)
(*                                                                         *)
(* A string is a sequence of atoms.  An atom is one character ("a", "/",   *)
(* "?", ",") or a run of characters the code never looks inside ("http",   *)
(* "en", "sitemap.xml", "%2C").                                            *)
(***************************************************************************)
EXTENDS Integers, Sequences, FiniteSets, TLC

VARIABLES
  \* normalizeUrl applied to generated inputs
  nRec,      \* the parts the input URL was written from
  nUrl,      \* the input string
  nAlt,      \* a second input string, related to nUrl as nRel says
  nRel,      \* "equiv": nAlt differs in host case, fragment, parameter order;
             \* "differ": in scheme, port, path or parameters; "path": in the
             \* path's letter case or final slash; "raw": nAlt = nUrl
  nKey,      \* normalizeUrl(nUrl)
  nAltKey,   \* normalizeUrl(nAlt)
  nKey2,     \* normalizeUrl(nKey)
  npc,
  \* deduplication applied to generated lists
  dList,     \* the input list of URLs
  dOut,      \* Array.from(urlMap.values())
  dpc,
  \* one request to the broken-page-scanner endpoint and its crawl
  apc,               \* endpoint: "idle", "crawling", "responded"
  response,          \* what the endpoint answered
  baseUrl,           \* argument of crawlAndCheckUrls
  pc,                \* position of the crawl
  locale,            \* findAndParseSitemaps: first path segment, <<>> for null
  sitemapLocations,  \* findAndParseSitemaps: locations to probe
  probeIdx,          \* findAndParseSitemaps: next location
  collected,         \* findAndParseSitemaps: its sitemapUrls accumulator
  discovered,        \* history: the URLs the sitemaps listed, before the filter
  sitemapUrls,       \* crawlAndCheckUrls: what findAndParseSitemaps returned
  urlsToCrawl,
  uniqueUrlsToCrawl,
  processedUrls,
  idx,               \* position of the for loop in uniqueUrlsToCrawl
  brokenPages,
  abortTimer,        \* the setTimeout that aborts the page check's fetch: "armed", "none"
  thrown,            \* message of the error crawlAndCheckUrls threw
  fetchLog,          \* history: every fetch() issued, in order
  outcomes,          \* history: how each page check ended, in order
  extractCalled,     \* history: extractUrlsFromPage was invoked
  extractFailed,     \* history: the fetch of the base page was rejected
  paceLog,           \* history: the delays awaited after page checks, in ms
  probeFailed,       \* history: a probe location failed
  \* one request to the scan-all endpoint, and the store
  registeredUrls,    \* registered_urls: the ids of the rows
  hasTotalPages,     \* scan_results has the column total_pages
  resultSeq,         \* the last AUTOINCREMENT id given to a scan_results row
  scanResults,       \* scan_results: the rows, row i has id i
  brokenPageRows,    \* broken_pages: the rows
  spc,               \* endpoint: "idle", "running", "responded"
  scanUrls,          \* the urls the handler read when it started
  task,              \* per site: its scan promise
  taskResult,        \* per site: what its scan promise fulfilled with
  scanResponse,      \* what the endpoint answered
  crawlOutcome,      \* history, per site: how its crawl ended
  \* parseXmlSitemap applied to generated documents
  xDoc,              \* the document, each nested location with what fetching it gives
  xOut,              \* the URLs parseXmlSitemap resolved with
  xpc,
  \* requests to /api/urls on the table registered_urls
  urlRow,            \* registered_urls: per id, the row's url and name
  now,               \* Date.now()
  urlsRequest,       \* history: the last request and the id it would insert
  urlsResponse,      \* what the handler answered to it
  \* parseXmlSitemap following nested sitemap locations on a site
  web,               \* per sitemap location, what fetching it gives
  callStack,         \* the parseXmlSitemap calls awaiting a nested one, outermost first
  \* extractUrlsFromPage applied to generated pages
  eBase,             \* the base URL
  eHrefs,            \* the href of every a[href] of the page, in document order
  eOut,              \* the list extractUrlsFromPage returned
  epc,
  \* the probe locations of findAndParseSitemaps for generated base URLs
  lBase,             \* the base URL
  lOut,              \* sitemapLocations
  lpc

normVars == <<nRec, nUrl, nAlt, nRel, nKey, nAltKey, nKey2, npc>>
dedupVars == <<dList, dOut, dpc>>
sitemapVars == <<locale, sitemapLocations, probeIdx, collected, discovered>>
loopVars == <<uniqueUrlsToCrawl, processedUrls, idx, brokenPages, abortTimer>>
crawlVars ==
  <<apc, response, baseUrl, pc, sitemapVars, sitemapUrls, urlsToCrawl, loopVars,
    thrown, fetchLog, outcomes, extractCalled, extractFailed, paceLog,
    probeFailed>>
storeVars == <<registeredUrls, hasTotalPages, resultSeq, scanResults, brokenPageRows>>
scanVars == <<storeVars, spc, scanUrls, task, taskResult, scanResponse, crawlOutcome>>
parseVars == <<xDoc, xOut, xpc>>
urlsVars == <<urlRow, now, urlsRequest, urlsResponse>>
nestVars == <<web, callStack>>
extractVars == <<eBase, eHrefs, eOut, epc>>
locateVars == <<lBase, lOut, lpc>>
vars == <<normVars, dedupVars, crawlVars, scanVars, parseVars, urlsVars, nestVars, extractVars, locateVars>>

\* ------------------------------------------------------------------------
\* Bounds of the model
\* ------------------------------------------------------------------------

\* Largest number of "&"-separated pieces in a generated query string.
MaxPairs == 2

\* Longest URL list handed to the deduplication.
MaxList == 3

\* Most <loc> entries of one sitemap document.
MaxLocs == 2

\* Most nested sitemaps of one sitemap index.
MaxNested == 2

\* Most anchors of the base page.
MaxLinks == 2

\* Most URLs the sitemaps of one site list in all.
MaxCollected == 3

\* Most registered sites.
MaxSites == 2

\* Most anchors of a page handed to extractUrlsFromPage alone.
MaxHrefs == 3

\* Most parseXmlSitemap calls nested in one another that the model follows.
MaxDepth == 6

\* ------------------------------------------------------------------------
\* Strings
\* ------------------------------------------------------------------------

\* UTF-16 code unit of a character, as compared by Array.prototype.sort.
Code(c) ==
  CASE c = "*" -> 42
    [] c = "," -> 44
    [] c = "1" -> 49
    [] c = "2" -> 50
    [] c = "=" -> 61
    [] c = "a" -> 97
    [] c = "b" -> 98
    [] c = "c" -> 99
    [] OTHER -> 0

\* String.prototype.toLowerCase on one atom.
LowerAtom(c) ==
  CASE c = "A" -> "a"
    [] c = "B" -> "b"
    [] c = "EN" -> "en"
    [] c = "X" -> "x"
    [] c = "SITEMAP.XML" -> "sitemap.xml"
    [] OTHER -> c

toLowerCase(s) == [i \in 1..Len(s) |-> LowerAtom(s[i])]

\* Index of the first atom of s that is in set D, or Len(s) + 1.
RECURSIVE FirstIn(_, _, _)
FirstIn(s, D, i) ==
  IF i > Len(s) THEN Len(s) + 1
  ELSE IF s[i] \in D THEN i
  ELSE FirstIn(s, D, i + 1)

\* Index of the last atom of s equal to c, or 0 (String.prototype.lastIndexOf,
\* one-based).
RECURSIVE LastIndexOf(_, _, _)
LastIndexOf(s, c, i) ==
  IF i = 0 THEN 0
  ELSE IF s[i] = c THEN i
  ELSE LastIndexOf(s, c, i - 1)

\* s with its leading "/" atoms removed.
RECURSIVE StripSlashes(_)
StripSlashes(s) ==
  IF s # <<>> /\ Head(s) = "/" THEN StripSlashes(Tail(s)) ELSE s

\* String.prototype.split(sep), on atoms.
RECURSIVE Split(_, _)
Split(s, sep) ==
  LET i == FirstIn(s, {sep}, 1)
  IN IF i > Len(s) THEN <<s>>
     ELSE <<SubSeq(s, 1, i - 1)>> \o Split(SubSeq(s, i + 1, Len(s)), sep)

\* Array.prototype.join(sep) of a list of strings.
RECURSIVE Join(_, _)
Join(parts, sep) ==
  IF parts = <<>> THEN <<>>
  ELSE IF Len(parts) = 1 THEN parts[1]
  ELSE parts[1] \o <<sep>> \o Join(Tail(parts), sep)

\* Lexicographic order of two strings by code unit (the < of JS strings).
RECURSIVE StrLess(_, _)
StrLess(s, t) ==
  IF t = <<>> THEN FALSE
  ELSE IF s = <<>> THEN TRUE
  ELSE IF Code(Head(s)) # Code(Head(t)) THEN Code(Head(s)) < Code(Head(t))
  ELSE StrLess(Tail(s), Tail(t))

\* ------------------------------------------------------------------------
\* new URL(s): the WHATWG parser on absolute http(s) URLs
\* ------------------------------------------------------------------------

Schemes == {"http", "https"}

PortAtoms == {"80", "443", "8080"}

ParseFailure ==
  [ok |-> FALSE, protocol |-> <<>>, hostname |-> <<>>, port |-> <<>>,
   pathname |-> <<>>, search |-> <<>>, hash |-> <<>>]

\* The port a scheme implies; the parser drops it from the URL record.
DefaultPort(scheme) == IF scheme = "http" THEN <<"80">> ELSE <<"443">>

ParseUrl(s) ==
  IF ~(Len(s) >= 2 /\ s[1] \in Schemes /\ s[2] = ":") THEN ParseFailure
  ELSE
    LET rest     == StripSlashes(SubSeq(s, 3, Len(s)))
        aEnd     == FirstIn(rest, {"/", "?", "#"}, 1)
        auth     == SubSeq(rest, 1, aEnd - 1)
        colon    == FirstIn(auth, {":"}, 1)
        host     == SubSeq(auth, 1, colon - 1)
        rawPort  == SubSeq(auth, colon + 1, Len(auth))
        after    == SubSeq(rest, aEnd, Len(rest))
        pEnd     == FirstIn(after, {"?", "#"}, 1)
        rawPath  == SubSeq(after, 1, pEnd - 1)
        afterP   == SubSeq(after, pEnd, Len(after))
        hashAt   == FirstIn(afterP, {"#"}, 1)
        rawQuery == IF afterP # <<>> /\ afterP[1] = "?"
                    THEN SubSeq(afterP, 2, hashAt - 1) ELSE <<>>
        rawHash  == SubSeq(afterP, hashAt + 1, Len(afterP))
    IN IF host = <<>> THEN ParseFailure
       ELSE IF ~(rawPort = <<>> \/ (Len(rawPort) = 1 /\ rawPort[1] \in PortAtoms))
       THEN ParseFailure
       ELSE [ok       |-> TRUE,
             protocol |-> <<s[1], ":">>,
             hostname |-> toLowerCase(host),
             port     |-> IF rawPort = DefaultPort(s[1]) THEN <<>> ELSE rawPort,
             pathname |-> IF rawPath = <<>> THEN <<"/">> ELSE rawPath,
             search   |-> IF rawQuery = <<>> THEN <<>> ELSE <<"?">> \o rawQuery,
             hash     |-> IF rawHash = <<>> THEN <<>> ELSE <<"#">> \o rawHash]

\* URL.prototype.origin.
Origin(p) ==
  p.protocol \o <<"/", "/">> \o p.hostname
    \o (IF p.port = <<>> THEN <<>> ELSE <<":">> \o p.port)

\* URL.prototype.toString(): the serialised href.
Href(p) == Origin(p) \o p.pathname \o p.search \o p.hash

\* ------------------------------------------------------------------------
\* URLSearchParams
\* ------------------------------------------------------------------------

\* Percent-decoding of one atom of a query string.
DecodeAtom(c) ==
  CASE c = "%2C" -> ","
    [] c = "%3D" -> "="
    [] c = "%26" -> "&"
    [] OTHER -> c

\* application/x-www-form-urlencoded serialisation of one character.
EncodeAtom(c) ==
  CASE c = "," -> "%2C"
    [] c = "=" -> "%3D"
    [] c = "&" -> "%26"
    [] OTHER -> c

Decode(s) == [i \in 1..Len(s) |-> DecodeAtom(s[i])]
Encode(s) == [i \in 1..Len(s) |-> EncodeAtom(s[i])]

\* One "&"-separated piece to a <<name, value>> pair: split on the first "=".
ParsePiece(piece) ==
  LET eq == FirstIn(piece, {"="}, 1)
  IN <<Decode(SubSeq(piece, 1, eq - 1)), Decode(SubSeq(piece, eq + 1, Len(piece)))>>

\* new URLSearchParams(search): a leading "?" is dropped, empty pieces are
\* skipped.
RECURSIVE PiecesToPairs(_)
PiecesToPairs(pieces) ==
  IF pieces = <<>> THEN <<>>
  ELSE IF Head(pieces) = <<>> THEN PiecesToPairs(Tail(pieces))
  ELSE <<ParsePiece(Head(pieces))>> \o PiecesToPairs(Tail(pieces))

ParseParams(search) ==
  LET q == IF search # <<>> /\ search[1] = "?" THEN Tail(search) ELSE search
  IN PiecesToPairs(Split(q, "&"))

\* URLSearchParams.prototype.toString().
SerializeParams(pairs) ==
  Join([i \in 1..Len(pairs) |-> Encode(pairs[i][1]) \o <<"=">> \o Encode(pairs[i][2])],
       "&")

\* String([name, value]): the text Array.prototype.sort compares by default.
EntryText(pair) == pair[1] \o <<",">> \o pair[2]

\* The order the default comparator of Array.prototype.sort puts on entries.
EntryLessByText(p, q) == StrLess(EntryText(p), EntryText(q))

\* Stable insertion of entry e into the sorted list.
RECURSIVE InsertEntry(_, _)
InsertEntry(e, sorted) ==
  IF sorted = <<>> THEN <<e>>
  ELSE IF EntryLessByText(e, Head(sorted)) THEN <<e>> \o sorted
  ELSE <<Head(sorted)>> \o InsertEntry(e, Tail(sorted))

\* [...entries].sort(): stable, ascending by EntryText.
RECURSIVE SortEntries(_)
SortEntries(pairs) ==
  IF pairs = <<>> THEN <<>>
  ELSE InsertEntry(pairs[Len(pairs)], SortEntries(SubSeq(pairs, 1, Len(pairs) - 1)))

\* normalizeUrl without its catch block: the TypeError of new URL(url) leaves
\* the function in place of a key.
normalizeUrlUncaught(url) ==
  LET parsedUrl == ParseUrl(url)
  IN IF ~parsedUrl.ok THEN <<"TypeError: Invalid URL">>
     ELSE parsedUrl.protocol \o <<"/", "/">> \o toLowerCase(parsedUrl.hostname)
            \o parsedUrl.pathname
            \o (IF parsedUrl.search # <<>>
                THEN <<"?">>
                       \o SerializeParams(SortEntries(ParseParams(parsedUrl.search)))
                ELSE <<>>)

\* ------------------------------------------------------------------------
\* normalizeUrl
\* ------------------------------------------------------------------------

normalizeUrl(url) ==
  LET parsedUrl == ParseUrl(url)
  IN IF ~parsedUrl.ok THEN url
     ELSE parsedUrl.protocol \o <<"/", "/">> \o toLowerCase(parsedUrl.hostname)
            \o parsedUrl.pathname
            \o (IF parsedUrl.search # <<>>
                THEN <<"?">> \o SerializeParams(SortEntries(ParseParams(parsedUrl.search)))
                ELSE <<>>)

\* ------------------------------------------------------------------------
\* Deduplication by normalized key
\* ------------------------------------------------------------------------

\* Map.prototype.has on a Map kept as its list of <<key, value>> entries in
\* insertion order.
MapHas(map, key) == \E i \in 1..Len(map) : map[i][1] = key

\* The loop with urlMap.set(k, url) done for every url: the last URL of a key
\* replaces the first.
RECURSIVE FillUrlMapLastWins(_, _)
FillUrlMapLastWins(urls, urlMap) ==
  IF urls = <<>> THEN urlMap
  ELSE LET normalizedUrl == normalizeUrl(Head(urls))
       IN FillUrlMapLastWins(Tail(urls),
            IF ~MapHas(urlMap, normalizedUrl)
            THEN Append(urlMap, <<normalizedUrl, Head(urls)>>)
            ELSE [i \in 1..Len(urlMap) |->
                    IF urlMap[i][1] = normalizedUrl
                    THEN <<normalizedUrl, Head(urls)>> ELSE urlMap[i]])

\* for (const url of urls) { if (!urlMap.has(k)) urlMap.set(k, url) }
RECURSIVE FillUrlMap(_, _)
FillUrlMap(urls, urlMap) ==
  IF urls = <<>> THEN urlMap
  ELSE LET normalizedUrl == normalizeUrl(Head(urls))
       IN FillUrlMap(Tail(urls),
                     IF ~MapHas(urlMap, normalizedUrl)
                     THEN Append(urlMap, <<normalizedUrl, Head(urls)>>)
                     ELSE urlMap)

\* Array.from(urlMap.values()) after the loop.
DedupeByKey(urls) ==
  LET urlMap == FillUrlMap(urls, <<>>)
  IN [i \in 1..Len(urlMap) |-> urlMap[i][2]]

\* ------------------------------------------------------------------------
\* Generated inputs
\* ------------------------------------------------------------------------

\* All sequences over S of length at most n.
SeqsUpTo(S, n) == UNION {[1..k -> S] : k \in 0..n}

\* Raw "&"-separated pieces of a query string; <<>> is an empty piece, as in
\* "?&" or "?a=1&".
Pieces ==
  { <<>>,
    <<"a", "=", "1">>,
    <<"b", "=", "2">>,
    <<"a", "*", "=", "1">>,
    <<"a", ",", "b", "=", "c">>,
    <<"a", "=", "b", ",", "c">> }

Hosts == { <<"a">>, <<"A">> }
Ports == { <<>>, <<"8080">> }
Paths == { <<>>, <<"/", "x">>, <<"/", "X">>, <<"/", "x", "/">> }
Frags == { <<>>, <<"f">>, <<"g">> }

UrlRecs ==
  [scheme : {"http"}, host : Hosts, port : Ports, path : Paths,
   hasQuery : BOOLEAN, pieces : SeqsUpTo(Pieces, MaxPairs),
   hasFrag : BOOLEAN, frag : Frags]

\* Records that write distinct strings: no pieces without "?", no fragment
\* text without "#".
WellFormedRec(r) ==
  /\ ~r.hasQuery => r.pieces = <<>>
  /\ r.hasFrag <=> r.frag # <<>>

\* The URL string a record stands for.
Render(r) ==
  <<r.scheme, ":", "/", "/">> \o r.host
    \o (IF r.port = <<>> THEN <<>> ELSE <<":">> \o r.port)
    \o r.path
    \o (IF r.hasQuery THEN <<"?">> \o Join(r.pieces, "&") ELSE <<>>)
    \o (IF r.hasFrag THEN <<"#">> \o r.frag ELSE <<>>)

\* t is s with its elements in another order.
IsPermutation(s, t) ==
  /\ Len(s) = Len(t)
  /\ \E f \in [1..Len(s) -> 1..Len(s)] :
       /\ \A i, j \in 1..Len(s) : i # j => f[i] # f[j]
       /\ \A i \in 1..Len(s) : t[i] = s[f[i]]

\* Records that differ from r at most in the letter case of the host, in the
\* fragment and in the order of the query pieces.
EquivalentRecs(r) ==
  { r2 \in UrlRecs :
      /\ WellFormedRec(r2)
      /\ r2.scheme = r.scheme /\ r2.port = r.port /\ r2.path = r.path
      /\ toLowerCase(r2.host) = toLowerCase(r.host)
      /\ r2.hasQuery = r.hasQuery
      /\ IsPermutation(r.pieces, r2.pieces) }

\* Records that differ from r in one material part: the scheme, the port, the
\* path, or the multiset of the query's <<name, value>> pairs.
MateriallyDifferentRecs(r) ==
  {[r EXCEPT !.scheme = "https"]}
    \cup {[r EXCEPT !.port = p] : p \in Ports \ {r.port}}
    \cup {[r EXCEPT !.path = p] : p \in Paths \ {r.path}}
    \cup {[r EXCEPT !.hasQuery = TRUE, !.pieces = q] :
            q \in {q2 \in SeqsUpTo(Pieces, MaxPairs) :
                     ~IsPermutation(PiecesToPairs(r.pieces), PiecesToPairs(q2))}}

\* Paths that differ from path in the letter case alone, or in a slash at the
\* end alone.
PathVariants(path) ==
  { q \in Paths \cup {<<"/">>} :
      /\ q # path
      /\ \/ toLowerCase(q) = toLowerCase(path)
         \/ q = path \o <<"/">>
         \/ path = q \o <<"/">> }

\* Strings new URL() rejects.
RawInputs ==
  { <<>>, <<"a">>, <<"/", "x">>, <<"http", ":", "/", "/">>,
    <<"http", ":", "/", "/", "a", ":", "x">> }

NoRec ==
  [scheme |-> "none", host |-> <<>>, port |-> <<>>, path |-> <<>>,
   hasQuery |-> FALSE, pieces |-> <<>>, hasFrag |-> FALSE, frag |-> <<>>]

\* URLs with colliding and with distinct keys.
PageEnX    == <<"http", ":", "/", "/", "a", "/", "en", "/", "x">>
PageEnXUp  == <<"http", ":", "/", "/", "A", "/", "en", "/", "x">>
PageEnXFr  == <<"http", ":", "/", "/", "a", "/", "en", "/", "x", "#", "f">>
PageEnY    == <<"http", ":", "/", "/", "a", "/", "en", "/", "y">>
PageFrX    == <<"http", ":", "/", "/", "a", "/", "fr", "/", "x">>
PageOther  == <<"http", ":", "/", "/", "b", "/", "en", "/", "x">>
PageRel    == <<"/", "en", "/", "z">>

UrlPool == {PageEnX, PageEnXUp, PageEnXFr, PageEnY, PageFrX, PageOther, PageRel}

\* ------------------------------------------------------------------------
\* The web the crawl sees
\* ------------------------------------------------------------------------

\* URLs a sitemap may list.
SitePool == {PageEnX, PageEnXUp, PageFrX, PageOther}

\* <urlset> documents: the <loc> texts in document order.
UrlsetDocs == {[kind |-> "urlset", locs |-> l] : l \in SeqsUpTo(SitePool, MaxLocs)}

\* What fetching a nested sitemap gives: a rejected fetch, a non-2xx response,
\* or a document.
NestedResponses ==
  {[kind |-> "error"], [kind |-> "notok"], [kind |-> "ok", doc |-> [kind |-> "malformed"]]}
    \cup {[kind |-> "ok", doc |-> [kind |-> "urlset", locs |-> <<u>>]] :
            u \in {PageEnX, PageFrX, PageRel}}
    \cup {[kind |-> "ok",
           doc |-> [kind |-> "index",
                    nested |-> <<[kind |-> "ok",
                                  doc |-> [kind |-> "urlset", locs |-> <<PageEnY>>]]>>]]}

\* <sitemapindex> documents, each nested location with what fetching it gives.
IndexDocs == {[kind |-> "index", nested |-> n] : n \in SeqsUpTo(NestedResponses, MaxNested)}

\* XML that is neither, and text that is no XML.
OtherDocs == {[kind |-> "other"], [kind |-> "malformed"]}

ProbeResponses ==
  {[kind |-> "error"], [kind |-> "notok"]}
    \cup {[kind |-> "ok", doc |-> d] : d \in UrlsetDocs \cup IndexDocs \cup OtherDocs}

\* <loc> texts of the nested sitemaps handed to parseXmlSitemap alone; <<>> is
\* an empty <loc>.
ExpansionLocs == {PageEnX, PageEnY, <<>>}

\* What fetching a nested location gives there.
ExpansionNested ==
  {[kind |-> "error"], [kind |-> "notok"]}
    \cup {[kind |-> "ok", doc |-> d] : d \in OtherDocs}
    \cup {[kind |-> "ok", doc |-> [kind |-> "urlset", locs |-> l]] :
            l \in SeqsUpTo(ExpansionLocs, MaxLocs)}
    \cup {[kind |-> "ok",
           doc |-> [kind |-> "index",
                    nested |-> <<[kind |-> "ok",
                                  doc |-> [kind |-> "urlset", locs |-> <<PageFrX>>]]>>]]}

ExpansionDocs ==
  {[kind |-> "index", nested |-> n] : n \in SeqsUpTo(ExpansionNested, MaxNested)}
    \cup UrlsetDocs \cup OtherDocs

HrefPool ==
  { PageEnX, PageEnXUp, PageEnXFr, PageOther, <<"/", "en", "/", "y">>,
    <<"http", ":", "/", "/">> }

ExtractResponses ==
  {[kind |-> "error", message |-> <<"fetch failed">>]}
    \cup {[kind |-> "ok", hrefs |-> h] : h \in SeqsUpTo(HrefPool, MaxLinks)}

\* How one page check ends: a response with a status, the 30 s timer aborting
\* the request, or fetch() rejecting.
Statuses == {200, 399, 400, 500}

CheckOutcomes ==
  {[kind |-> "response", status |-> st] : st \in Statuses}
    \cup {[kind |-> "abort"]}
    \cup {[kind |-> "error", message |-> <<"fetch failed">>]}

\* fetch() of a string that is no URL rejects before any request is made.
InvalidUrlOutcome == [kind |-> "error", message |-> <<"Failed to parse URL">>]

BaseUrls ==
  { <<"http", ":", "/", "/", "a", "/">>,
    <<"http", ":", "/", "/", "a", "/", "en", "/">>,
    <<"http", ":", "/", "/", "a", "/", "EN", "/">>,
    <<"http", ":", "/", "/", "a", "/", "sitemap.xml">>,
    <<"a">> }

\* ------------------------------------------------------------------------
\* parseXmlSitemap
\* ------------------------------------------------------------------------

\* Array.prototype.flat() of a list of lists.
RECURSIVE Flat(_)
Flat(lists) == IF lists = <<>> THEN <<>> ELSE Head(lists) \o Flat(Tail(lists))

\* .filter(Boolean) on <loc> texts: the empty string is dropped.
FilterBoolean(locs) == SelectSeq(locs, LAMBDA l : l # <<>>)

\* parseXmlSitemap without the try/catch around the nested fetch: one nested
\* sitemap that fails makes the index give no URL.
RECURSIVE parseXmlSitemapAllOrNothing(_)
parseXmlSitemapAllOrNothing(doc) ==
  CASE doc.kind = "index" ->
         IF \E i \in 1..Len(doc.nested) : doc.nested[i].kind # "ok"
         THEN <<>>
         ELSE Flat([i \in 1..Len(doc.nested) |->
                      parseXmlSitemapAllOrNothing(doc.nested[i].doc)])
    [] doc.kind = "urlset" -> FilterBoolean(doc.locs)
    [] OTHER -> <<>>

RECURSIVE parseXmlSitemap(_)
parseXmlSitemap(doc) ==
  CASE doc.kind = "index" ->
         Flat([i \in 1..Len(doc.nested) |->
                 IF doc.nested[i].kind = "ok"
                 THEN parseXmlSitemap(doc.nested[i].doc)
                 ELSE <<>>])
    [] doc.kind = "urlset" -> FilterBoolean(doc.locs)
    [] OTHER -> <<>>

\* ------------------------------------------------------------------------
\* findAndParseSitemaps
\* ------------------------------------------------------------------------

\* String.prototype.endsWith for a suffix that is one atom.
EndsWith(s, atom) == s # <<>> /\ s[Len(s)] = atom

IsSitemapUrl(url) ==
  \/ EndsWith(toLowerCase(url), "sitemap.xml")
  \/ EndsWith(toLowerCase(url), "sitemap_index.xml")

\* pathname.split('/').filter(Boolean)
PathParts(pathname) == SelectSeq(Split(pathname, "/"), LAMBDA seg : seg # <<>>)

ActualBaseUrl(url) ==
  LET baseUrlObj == ParseUrl(url)
  IN IF IsSitemapUrl(url)
     THEN Origin(baseUrlObj)
            \o SubSeq(baseUrlObj.pathname, 1,
                      LastIndexOf(baseUrlObj.pathname, "/", Len(baseUrlObj.pathname)))
     ELSE url

\* The locale of the base URL, <<>> for null.
LocaleOf(url) ==
  LET basePathParts == PathParts(ParseUrl(ActualBaseUrl(url)).pathname)
  IN IF Len(basePathParts) > 0 THEN basePathParts[1] ELSE <<>>

SitemapLocationsOf(url) ==
  IF IsSitemapUrl(url) THEN <<url>>
  ELSE << ActualBaseUrl(url) \o <<"sitemap.xml">>,
          ActualBaseUrl(url) \o <<"sitemap_index.xml">>,
          Origin(ParseUrl(ActualBaseUrl(url))) \o <<"/", "sitemap.xml">> >>

\* The predicate with the segment compared without regard to letter case.
MatchesLocaleAnyCase(url, loc) ==
  LET urlObj == ParseUrl(url)
      urlPathParts == PathParts(urlObj.pathname)
  IN urlObj.ok /\ Len(urlPathParts) > 0
       /\ toLowerCase(urlPathParts[1]) = toLowerCase(loc)

\* The predicate of parsedSitemap.filter(...): false when new URL(url) throws.
MatchesLocale(url, loc) ==
  LET urlObj == ParseUrl(url)
      urlPathParts == PathParts(urlObj.pathname)
  IN urlObj.ok /\ Len(urlPathParts) > 0 /\ urlPathParts[1] = loc

\* The URLs a probe's sitemap lists: parsedSitemap, as a set.
ListedBy(resp) ==
  IF resp.kind # "ok" THEN {}
  ELSE LET parsedSitemap == parseXmlSitemap(resp.doc)
       IN {parsedSitemap[i] : i \in 1..Len(parsedSitemap)}

\* The probe's fetch was rejected, answered with a status that is not ok, or
\* gave text that is no sitemap.
ProbeFailed(resp) == resp.kind # "ok" \/ resp.doc \in OtherDocs

\* What one probe adds to the accumulator.
ProbeYield(resp, loc) ==
  IF resp.kind # "ok" THEN <<>>
  ELSE LET parsedSitemap == parseXmlSitemap(resp.doc)
       IN IF loc # <<>>
          THEN SelectSeq(parsedSitemap, LAMBDA u : MatchesLocale(u, loc))
          ELSE parsedSitemap

\* ------------------------------------------------------------------------
\* extractUrlsFromPage
\* ------------------------------------------------------------------------

\* new URL(href, base) for an absolute href or one that starts with one "/";
\* ParseFailure when it throws.
ResolveHref(href, base) ==
  IF href # <<>> /\ href[1] \in Schemes THEN ParseUrl(href)
  ELSE IF href # <<>> /\ href[1] = "/" /\ ~(Len(href) >= 2 /\ href[2] = "/")
  THEN ParseUrl(Origin(ParseUrl(base)) \o href)
  ELSE ParseFailure

\* Set.prototype.add on a Set kept as its list of members in insertion order.
SetAdd(set, x) == IF \E i \in 1..Len(set) : set[i] = x THEN set ELSE Append(set, x)

\* The extraction without the comparison of the hostnames.
RECURSIVE ExtractLinksAnyHost(_, _, _)
ExtractLinksAnyHost(hrefs, base, uniqueUrls) ==
  IF hrefs = <<>> THEN uniqueUrls
  ELSE LET href == Head(hrefs)
           resolved == ResolveHref(href, base)
           fullUrl == Href(resolved)
       IN ExtractLinksAnyHost(Tail(hrefs), base,
            IF href # <<>> /\ resolved.ok
            THEN SetAdd(uniqueUrls, fullUrl)
            ELSE uniqueUrls)

\* links.forEach(...) and Array.from(uniqueUrls).
RECURSIVE ExtractLinks(_, _, _)
ExtractLinks(hrefs, base, uniqueUrls) ==
  IF hrefs = <<>> THEN uniqueUrls
  ELSE LET href == Head(hrefs)
           resolved == ResolveHref(href, base)
           fullUrl == Href(resolved)
       IN ExtractLinks(Tail(hrefs), base,
            IF href # <<>> /\ resolved.ok
               /\ ParseUrl(fullUrl).hostname = ParseUrl(base).hostname
            THEN SetAdd(uniqueUrls, fullUrl)
            ELSE uniqueUrls)

\* ------------------------------------------------------------------------
\* crawlAndCheckUrls
\* ------------------------------------------------------------------------

TimedOutMessage == <<"Request", "timed out", "after", "30", "seconds">>

\* The classification with response.status > 400 for the test of line 147.
ClassifyCheckAbove400(url, outcome) ==
  CASE outcome.kind = "response" ->
         IF outcome.status > 400
         THEN <<[url |-> url, status |-> outcome.status]>>
         ELSE <<>>
    [] outcome.kind = "abort" -> <<[url |-> url, error |-> TimedOutMessage]>>
    [] OTHER -> <<[url |-> url, error |-> outcome.message]>>

\* The entries one page check pushes on brokenPages.
ClassifyCheck(url, outcome) ==
  CASE outcome.kind = "response" ->
         IF outcome.status >= 400
         THEN <<[url |-> url, status |-> outcome.status]>>
         ELSE <<>>
    [] outcome.kind = "abort" -> <<[url |-> url, error |-> TimedOutMessage]>>
    [] OTHER -> <<[url |-> url, error |-> outcome.message]>>

\* setTimeout(resolve, 1000): the delay after a page check, in ms.
PACING_MS == 1000

\* The state machine of section 4.5 of the specification.
Phase ==
  CASE pc = "idle" -> "Start"
    [] pc \in {"resolve", "probe", "probing", "select", "extract"} -> "ResolvingUrls"
    [] pc \in {"check", "fetching", "pacing"} -> "Checking"
    [] pc = "returned" -> "Done"
    [] OTHER -> "Failed"

CrawlIdle ==
  /\ apc = "idle" /\ response = [kind |-> "none"] /\ baseUrl = <<>> /\ pc = "idle"
  /\ locale = <<>> /\ sitemapLocations = <<>> /\ probeIdx = 0 /\ collected = <<>>
  /\ discovered = {}
  /\ sitemapUrls = <<>> /\ urlsToCrawl = <<>> /\ uniqueUrlsToCrawl = <<>>
  /\ processedUrls = {} /\ idx = 0 /\ brokenPages = <<>> /\ thrown = <<>>
  /\ abortTimer = "none"
  /\ fetchLog = <<>> /\ outcomes = <<>> /\ extractCalled = FALSE
  /\ extractFailed = FALSE /\ paceLog = <<>> /\ probeFailed = FALSE

\* Requests to the endpoint: the method, and the JSON body's url if any.
Requests ==
  {[method |-> "GET", body |-> "json", url |-> <<>>],
   [method |-> "POST", body |-> "invalid", url |-> <<>>],
   [method |-> "POST", body |-> "json", url |-> <<>>]}
    \cup {[method |-> "POST", body |-> "json", url |-> u] : u \in BaseUrls}

\* action(): the request is validated and the crawl is started.
ApiRequest(req) ==
  /\ apc = "idle"
  /\ IF req.method # "POST"
     THEN /\ response' = [kind |-> "rejected", status |-> 405,
                          error |-> <<"Method not allowed">>]
          /\ apc' = "responded"
          /\ UNCHANGED <<baseUrl, pc>>
     ELSE IF req.body = "invalid"
     THEN /\ response' = [kind |-> "report", status |-> 500, error |-> TRUE,
                          message |-> <<"Unexpected token">>]
          /\ apc' = "responded"
          /\ UNCHANGED <<baseUrl, pc>>
     ELSE IF req.url = <<>>
     THEN /\ response' = [kind |-> "rejected", status |-> 400,
                          error |-> <<"URL is required">>]
          /\ apc' = "responded"
          /\ UNCHANGED <<baseUrl, pc>>
     ELSE /\ apc' = "crawling"
          /\ baseUrl' = req.url
          /\ pc' = "resolve"
          /\ UNCHANGED response
  /\ UNCHANGED <<sitemapVars, sitemapUrls, urlsToCrawl, loopVars, thrown, fetchLog,
                 outcomes, extractCalled, extractFailed, paceLog, probeFailed, normVars, dedupVars,
                 scanVars, parseVars, urlsVars, nestVars, extractVars, locateVars>>

\* findAndParseSitemaps up to its first fetch: an unparseable base URL is
\* caught and the function returns its empty accumulator.
SitemapSetup ==
  /\ pc = "resolve"
  /\ IF ~ParseUrl(baseUrl).ok
     THEN /\ sitemapUrls' = <<>>
          /\ pc' = "select"
          /\ UNCHANGED sitemapVars
     ELSE /\ locale' = LocaleOf(baseUrl)
          /\ sitemapLocations' = SitemapLocationsOf(baseUrl)
          /\ probeIdx' = 1
          /\ collected' = <<>>
          /\ pc' = "probe"
          /\ UNCHANGED <<sitemapUrls, discovered>>
  /\ UNCHANGED <<apc, response, baseUrl, urlsToCrawl, loopVars, thrown, fetchLog,
                 outcomes, extractCalled, extractFailed, paceLog, probeFailed, normVars, dedupVars,
                 scanVars, parseVars, urlsVars, nestVars, extractVars, locateVars>>

\* The head of a turn of the loop over sitemapLocations: fetch(sitemapUrl) is
\* issued, without signal and without timer.
SitemapProbeIssue ==
  /\ pc = "probe"
  /\ probeIdx <= Len(sitemapLocations)
  /\ fetchLog' = Append(fetchLog, [kind |-> "sitemap", url |-> sitemapLocations[probeIdx]])
  /\ pc' = "probing"
  /\ UNCHANGED <<apc, response, baseUrl, sitemapVars, sitemapUrls, urlsToCrawl,
                 loopVars, thrown, outcomes, extractCalled, extractFailed, paceLog, probeFailed, normVars, dedupVars,
                 scanVars, parseVars, urlsVars, nestVars, extractVars, locateVars>>

\* A probe whose rejected fetch ends the resolution: the accumulator is
\* returned as it is and the later locations are not tried.
SitemapProbeAborting(resp) ==
  /\ pc = "probing"
  /\ Len(collected \o ProbeYield(resp, locale)) <= MaxCollected
  /\ discovered' = discovered \cup ListedBy(resp)
  /\ probeFailed' = (probeFailed \/ ProbeFailed(resp))
  /\ LET all == collected \o ProbeYield(resp, locale)
     IN IF probeIdx < Len(sitemapLocations) /\ resp.kind # "error"
        THEN /\ collected' = all
             /\ probeIdx' = probeIdx + 1
             /\ pc' = "probe"
             /\ UNCHANGED sitemapUrls
        ELSE /\ sitemapUrls' = IF resp.kind = "error" THEN all ELSE DedupeByKey(all)
             /\ collected' = <<>>
             /\ probeIdx' = probeIdx + 1
             /\ pc' = "select"
  /\ UNCHANGED <<apc, response, baseUrl, locale, sitemapLocations, urlsToCrawl,
                 loopVars, thrown, fetchLog, outcomes, extractCalled, extractFailed,
                 paceLog, normVars, dedupVars, scanVars, parseVars, urlsVars,
                 nestVars, extractVars, locateVars>>

\* The rest of the turn, once the fetch and the fetches of the nested
\* sitemaps have settled: the parse, the locale filter; after the last
\* location the deduplication and the return.
SitemapProbe(resp) ==
  /\ pc = "probing"
  /\ Len(collected \o ProbeYield(resp, locale)) <= MaxCollected
  /\ discovered' = discovered \cup ListedBy(resp)
  /\ probeFailed' = (probeFailed \/ ProbeFailed(resp))
  /\ LET all == collected \o ProbeYield(resp, locale)
     IN IF probeIdx < Len(sitemapLocations)
        THEN /\ collected' = all
             /\ probeIdx' = probeIdx + 1
             /\ pc' = "probe"
             /\ UNCHANGED sitemapUrls
        ELSE /\ sitemapUrls' = DedupeByKey(all)
             /\ collected' = <<>>
             /\ probeIdx' = probeIdx + 1
             /\ pc' = "select"
  /\ UNCHANGED <<apc, response, baseUrl, locale, sitemapLocations, urlsToCrawl,
                 loopVars, thrown, fetchLog, outcomes, extractCalled, extractFailed, paceLog, normVars,
                 dedupVars, scanVars, parseVars, urlsVars, nestVars, extractVars,
                 locateVars>>

\* The loop of crawlAndCheckUrls is entered with the deduplicated candidates.
EnterLoop(urls) ==
  /\ urlsToCrawl' = urls
  /\ uniqueUrlsToCrawl' = DedupeByKey(urls)
  /\ processedUrls' = {}
  /\ brokenPages' = <<>>
  /\ abortTimer' = "none"
  /\ idx' = 1
  /\ pc' = "check"

\* The choice of the source with the anchors of the base page added to the
\* URLs of the sitemaps.
SelectSourceBoth ==
  /\ pc = "select"
  /\ extractCalled' = TRUE
  /\ IF ParseUrl(baseUrl).ok
     THEN /\ fetchLog' = Append(fetchLog, [kind |-> "base", url |-> baseUrl])
          /\ pc' = "extract"
          /\ UNCHANGED thrown
     ELSE /\ thrown' = InvalidUrlOutcome.message
          /\ pc' = "threw"
          /\ UNCHANGED fetchLog
  /\ UNCHANGED <<urlsToCrawl, loopVars>>
  /\ UNCHANGED <<apc, response, baseUrl, sitemapVars, sitemapUrls, outcomes,
                 extractFailed, paceLog, probeFailed, normVars, dedupVars, scanVars, parseVars,
                 urlsVars, nestVars, extractVars, locateVars>>

\* A selection whose fetch of the base page is issued for any base string.
SelectSourceFetching ==
  /\ pc = "select"
  /\ IF Len(sitemapUrls) > 0
     THEN /\ EnterLoop(sitemapUrls)
          /\ UNCHANGED <<extractCalled, fetchLog, thrown>>
     ELSE /\ extractCalled' = TRUE
          /\ fetchLog' = Append(fetchLog, [kind |-> "base", url |-> baseUrl])
          /\ pc' = "extract"
          /\ UNCHANGED <<thrown, urlsToCrawl, loopVars>>
  /\ UNCHANGED <<apc, response, baseUrl, sitemapVars, sitemapUrls, outcomes,
                 extractFailed, paceLog, probeFailed, normVars, dedupVars, scanVars, parseVars,
                 urlsVars, nestVars, extractVars, locateVars>>

\* sitemapUrls.length > 0 ? sitemapUrls : await extractUrlsFromPage(baseUrl)
SelectSource ==
  /\ pc = "select"
  /\ IF Len(sitemapUrls) > 0
     THEN /\ EnterLoop(sitemapUrls)
          /\ UNCHANGED <<extractCalled, fetchLog, thrown>>
     ELSE /\ extractCalled' = TRUE
          /\ IF ParseUrl(baseUrl).ok
             THEN /\ fetchLog' = Append(fetchLog, [kind |-> "base", url |-> baseUrl])
                  /\ pc' = "extract"
                  /\ UNCHANGED thrown
             ELSE /\ thrown' = InvalidUrlOutcome.message
                  /\ pc' = "threw"
                  /\ UNCHANGED fetchLog
          /\ UNCHANGED <<urlsToCrawl, loopVars>>
  /\ UNCHANGED <<apc, response, baseUrl, sitemapVars, sitemapUrls, outcomes,
                 extractFailed, paceLog, probeFailed, normVars, dedupVars, scanVars, parseVars,
                 urlsVars, nestVars, extractVars, locateVars>>

\* extractUrlsFromPage whose rejected fetch counts as a page without anchors.
ExtractSettleEmptyOnFailure(resp) ==
  /\ pc = "extract"
  /\ IF resp.kind = "error"
     THEN /\ EnterLoop(<<>>)
     ELSE /\ EnterLoop(ExtractLinks(resp.hrefs, baseUrl, <<>>))
  /\ extractFailed' = (resp.kind = "error")
  /\ UNCHANGED <<apc, response, baseUrl, sitemapVars, sitemapUrls, fetchLog, outcomes,
                 thrown, extractCalled, paceLog, probeFailed, normVars, dedupVars, scanVars,
                 parseVars, urlsVars, nestVars, extractVars, locateVars>>

\* extractUrlsFromPage after its fetch: a rejected fetch is thrown on by
\* crawlAndCheckUrls, a page gives the same-host anchors.
ExtractSettle(resp) ==
  /\ pc = "extract"
  /\ IF resp.kind = "error"
     THEN /\ thrown' = resp.message
          /\ pc' = "threw"
          /\ UNCHANGED <<urlsToCrawl, loopVars>>
     ELSE /\ EnterLoop(ExtractLinks(resp.hrefs, baseUrl, <<>>))
          /\ UNCHANGED thrown
  /\ extractFailed' = (resp.kind = "error")
  /\ UNCHANGED <<apc, response, baseUrl, sitemapVars, sitemapUrls, fetchLog, outcomes,
                 extractCalled, paceLog, probeFailed, normVars, dedupVars, scanVars, parseVars,
                 urlsVars, nestVars, extractVars, locateVars>>

\* The head of a loop that issues the page's fetch and goes on to the next
\* URL without awaiting it.
CheckIssueUnawaited ==
  /\ pc = "check"
  /\ IF idx > Len(uniqueUrlsToCrawl)
     THEN /\ pc' = "returned"
          /\ UNCHANGED <<processedUrls, idx, fetchLog, abortTimer>>
     ELSE LET url == uniqueUrlsToCrawl[idx]
              normalizedUrl == normalizeUrl(url)
          IN IF normalizedUrl \in processedUrls
             THEN /\ idx' = idx + 1
                  /\ UNCHANGED <<pc, processedUrls, fetchLog, abortTimer>>
             ELSE /\ processedUrls' = processedUrls \cup {normalizedUrl}
                  /\ abortTimer' = "armed"
                  /\ fetchLog' = Append(fetchLog, [kind |-> "check", url |-> url])
                  /\ idx' = idx + 1
                  /\ UNCHANGED pc
  /\ UNCHANGED <<apc, response, baseUrl, sitemapVars, sitemapUrls, urlsToCrawl,
                 uniqueUrlsToCrawl, brokenPages, thrown, outcomes, extractCalled,
                 extractFailed, paceLog, probeFailed, normVars, dedupVars, scanVars, parseVars,
                 urlsVars, nestVars, extractVars, locateVars>>

\* The loop step with the test of line 117 inverted: a URL is skipped when its
\* key is NOT in processedUrls.
CheckIssueSkipInverted ==
  /\ pc = "check"
  /\ IF idx > Len(uniqueUrlsToCrawl)
     THEN /\ pc' = "returned"
          /\ UNCHANGED <<processedUrls, idx, fetchLog, abortTimer>>
     ELSE LET url == uniqueUrlsToCrawl[idx]
              normalizedUrl == normalizeUrl(url)
          IN IF normalizedUrl \notin processedUrls
             THEN /\ idx' = idx + 1
                  /\ UNCHANGED <<pc, processedUrls, fetchLog, abortTimer>>
             ELSE /\ processedUrls' = processedUrls \cup {normalizedUrl}
                  /\ abortTimer' = "armed"
                  /\ fetchLog' = Append(fetchLog, [kind |-> "check", url |-> url])
                  /\ pc' = "fetching"
                  /\ UNCHANGED idx
  /\ UNCHANGED <<apc, response, baseUrl, sitemapVars, sitemapUrls, urlsToCrawl,
                 uniqueUrlsToCrawl, brokenPages, thrown, outcomes, extractCalled,
                 extractFailed, paceLog, probeFailed, normVars, dedupVars, scanVars, parseVars,
                 urlsVars, nestVars, extractVars, locateVars>>

\* The head of the for loop: the end of the list returns the result, a key
\* already processed is skipped, otherwise the page's fetch is issued.
CheckIssue ==
  /\ pc = "check"
  /\ IF idx > Len(uniqueUrlsToCrawl)
     THEN /\ pc' = "returned"
          /\ UNCHANGED <<processedUrls, idx, fetchLog, abortTimer>>
     ELSE LET url == uniqueUrlsToCrawl[idx]
              normalizedUrl == normalizeUrl(url)
          IN IF normalizedUrl \in processedUrls
             THEN /\ idx' = idx + 1
                  /\ UNCHANGED <<pc, processedUrls, fetchLog, abortTimer>>
             ELSE /\ processedUrls' = processedUrls \cup {normalizedUrl}
                  /\ abortTimer' = "armed"
                  /\ fetchLog' = Append(fetchLog, [kind |-> "check", url |-> url])
                  /\ pc' = "fetching"
                  /\ UNCHANGED idx
  /\ UNCHANGED <<apc, response, baseUrl, sitemapVars, sitemapUrls, urlsToCrawl,
                 uniqueUrlsToCrawl, brokenPages, thrown, outcomes, extractCalled,
                 extractFailed, paceLog, probeFailed, normVars, dedupVars, scanVars, parseVars,
                 urlsVars, nestVars, extractVars, locateVars>>

\* The page's fetch settles, without the inner try/catch: a failed fetch is
\* thrown on to the caller.
CheckSettleUncaught(outcome) ==
  /\ pc = "fetching"
  /\ ParseUrl(uniqueUrlsToCrawl[idx]).ok \/ outcome = InvalidUrlOutcome
  /\ ~ParseUrl(uniqueUrlsToCrawl[idx]).ok => outcome = InvalidUrlOutcome
  /\ outcome.kind = "abort" => abortTimer = "armed"
  /\ abortTimer' = "none"
  /\ outcomes' = Append(outcomes, [url |-> uniqueUrlsToCrawl[idx], outcome |-> outcome])
  /\ IF outcome.kind = "response"
     THEN /\ brokenPages' = brokenPages \o ClassifyCheck(uniqueUrlsToCrawl[idx], outcome)
          /\ pc' = "pacing"
          /\ UNCHANGED thrown
     ELSE /\ thrown' = IF outcome.kind = "abort" THEN TimedOutMessage ELSE outcome.message
          /\ pc' = "threw"
          /\ UNCHANGED brokenPages
  /\ UNCHANGED <<apc, response, baseUrl, sitemapVars, sitemapUrls, urlsToCrawl,
                 uniqueUrlsToCrawl, processedUrls, idx, fetchLog,
                 extractCalled, extractFailed, paceLog, probeFailed, normVars, dedupVars, scanVars,
                 parseVars, urlsVars, nestVars, extractVars, locateVars>>

\* The page's fetch settles; after a healthy page the loop goes on to the
\* next URL at once, the delay is awaited after the other outcomes only.
CheckSettleSkippingPace(outcome) ==
  /\ pc = "fetching"
  /\ ParseUrl(uniqueUrlsToCrawl[idx]).ok \/ outcome = InvalidUrlOutcome
  /\ ~ParseUrl(uniqueUrlsToCrawl[idx]).ok => outcome = InvalidUrlOutcome
  /\ outcome.kind = "abort" => abortTimer = "armed"
  /\ abortTimer' = "none"
  /\ brokenPages' = brokenPages \o ClassifyCheck(uniqueUrlsToCrawl[idx], outcome)
  /\ outcomes' = Append(outcomes, [url |-> uniqueUrlsToCrawl[idx], outcome |-> outcome])
  /\ IF ClassifyCheck(uniqueUrlsToCrawl[idx], outcome) = <<>>
     THEN idx' = idx + 1 /\ pc' = "check"
     ELSE idx' = idx /\ pc' = "pacing"
  /\ UNCHANGED <<apc, response, baseUrl, sitemapVars, sitemapUrls, urlsToCrawl,
                 uniqueUrlsToCrawl, processedUrls, thrown, fetchLog, extractCalled,
                 extractFailed, paceLog, probeFailed, normVars, dedupVars, scanVars, parseVars,
                 urlsVars, nestVars, extractVars, locateVars>>

\* The page's fetch settles and is classified.
CheckSettle(outcome) ==
  /\ pc = "fetching"
  /\ ParseUrl(uniqueUrlsToCrawl[idx]).ok \/ outcome = InvalidUrlOutcome
  /\ ~ParseUrl(uniqueUrlsToCrawl[idx]).ok => outcome = InvalidUrlOutcome
  /\ outcome.kind = "abort" => abortTimer = "armed"
  /\ abortTimer' = "none"
  /\ brokenPages' = brokenPages \o ClassifyCheck(uniqueUrlsToCrawl[idx], outcome)
  /\ outcomes' = Append(outcomes, [url |-> uniqueUrlsToCrawl[idx], outcome |-> outcome])
  /\ pc' = "pacing"
  /\ UNCHANGED <<apc, response, baseUrl, sitemapVars, sitemapUrls, urlsToCrawl,
                 uniqueUrlsToCrawl, processedUrls, idx, thrown, fetchLog,
                 extractCalled, extractFailed, paceLog, probeFailed, normVars, dedupVars, scanVars,
                 parseVars, urlsVars, nestVars, extractVars, locateVars>>

\* The pacing step with the entries of brokenPages put in reverse, as
\* brokenPages.unshift would leave them.
RECURSIVE Reverse(_)
Reverse(seq) == IF seq = <<>> THEN <<>> ELSE Append(Reverse(Tail(seq)), Head(seq))

PaceElapsedReversing ==
  /\ pc = "pacing"
  /\ idx' = idx + 1
  /\ pc' = "check"
  /\ paceLog' = Append(paceLog, PACING_MS)
  /\ brokenPages' = IF idx = Len(uniqueUrlsToCrawl) THEN Reverse(brokenPages) ELSE brokenPages
  /\ UNCHANGED <<apc, response, baseUrl, sitemapVars, sitemapUrls, urlsToCrawl,
                 uniqueUrlsToCrawl, processedUrls, abortTimer, thrown, fetchLog,
                 outcomes, extractCalled, extractFailed, probeFailed, normVars, dedupVars, scanVars,
                 parseVars, urlsVars, nestVars, extractVars, locateVars>>

\* await new Promise(resolve => setTimeout(resolve, 1000)), then the next turn.
PaceElapsed ==
  /\ pc = "pacing"
  /\ idx' = idx + 1
  /\ pc' = "check"
  /\ paceLog' = Append(paceLog, PACING_MS)
  /\ UNCHANGED <<apc, response, baseUrl, sitemapVars, sitemapUrls, urlsToCrawl,
                 uniqueUrlsToCrawl, processedUrls, brokenPages, abortTimer, thrown, fetchLog,
                 outcomes, extractCalled, extractFailed, probeFailed, normVars, dedupVars, scanVars,
                 parseVars, urlsVars, nestVars, extractVars, locateVars>>

\* `There are ${n} broken pages`
BrokenPagesMessage(n) == <<"There are", ToString(n), "broken pages">>

\* The report with error standing for a failure of the crawl only.
ReportOfCrawlStatus(pages) ==
  IF Len(pages) > 0
  THEN [kind |-> "report", status |-> 200, error |-> FALSE,
        message |-> BrokenPagesMessage(Len(pages)),
        pages |-> [i \in 1..Len(pages) |-> [url |-> pages[i].url]]]
  ELSE [kind |-> "report", status |-> 200, error |-> FALSE,
        message |-> <<"No broken pages found">>]

\* The endpoint's report of a crawl that returned.
ReportOf(pages) ==
  IF Len(pages) > 0
  THEN [kind |-> "report", status |-> 200, error |-> TRUE,
        message |-> BrokenPagesMessage(Len(pages)),
        pages |-> [i \in 1..Len(pages) |-> [url |-> pages[i].url]]]
  ELSE [kind |-> "report", status |-> 200, error |-> FALSE,
        message |-> <<"No broken pages found">>]

\* The endpoint's report of a crawl that threw.
ErrorReportOf(message) ==
  [kind |-> "report", status |-> 500, error |-> TRUE, message |-> message]

\* action() after await crawlAndCheckUrls(url).
ApiRespond ==
  /\ apc = "crawling"
  /\ pc \in {"returned", "threw"}
  /\ response' = IF pc = "returned" THEN ReportOf(brokenPages) ELSE ErrorReportOf(thrown)
  /\ apc' = "responded"
  /\ UNCHANGED <<baseUrl, pc, sitemapVars, sitemapUrls, urlsToCrawl, loopVars, thrown,
                 fetchLog, outcomes, extractCalled, extractFailed, paceLog, probeFailed, normVars,
                 dedupVars, scanVars, parseVars, urlsVars, nestVars, extractVars,
                 locateVars>>

\* ------------------------------------------------------------------------
\* The store (app/utils/urlStorage.ts on the tables of db.server.ts)
\* ------------------------------------------------------------------------

\* const MAX_CONCURRENT_SCANS = 5 of the scan-all handler.
MAX_CONCURRENT_SCANS == 5

\* Registered sites beyond MAX_CONCURRENT_SCANS that the table can hold.
MaxOverCap == 1

Sites == 1..(MAX_CONCURRENT_SCANS + MaxOverCap)

\* The broken_pages row of one page of result resultId: page.status || null
\* and page.error || null, <<>> standing for NULL.
BrokenPageRow(resultId, page) ==
  [resultId |-> resultId,
   url |-> page.url,
   status |-> IF "status" \in DOMAIN page /\ page.status # 0 THEN <<page.status>> ELSE <<>>,
   error |-> IF "error" \in DOMAIN page THEN page.error ELSE <<>>]

\* saveScanResult that throws only for the missing column: url_id is not
\* checked against registered_urls.
SaveThrowsColumnOnly(result) == ~hasTotalPages

\* saveScanResult throws: its INSERT names the column total_pages, which the
\* table has only if it was not created by the CREATE TABLE of db.server.ts,
\* and FOREIGN KEY (url_id) REFERENCES registered_urls(id) rejects the row of
\* a URL that is not registered.
SaveThrows(result) ==
  \/ ~hasTotalPages
  \/ result.urlId \notin registeredUrls

SaveError == <<"table scan_results has no column named total_pages">>

ForeignKeyError == <<"FOREIGN KEY constraint failed">>

\* The message saveScanResult throws with: preparing the INSERT fails before
\* any row is checked.
SaveErrorNow == IF ~hasTotalPages THEN SaveError ELSE ForeignKeyError

\* The positions of the scan_results rows of URL id.
ResultsOfUrl(id) == {i \in 1..Len(scanResults) : scanResults[i].urlId = id}

\* The tables after saveScanResult(result) committed; the new row's id is
\* resultSeq + 1.
SavedResults(result) ==
  Append(scanResults,
         [id |-> resultSeq + 1,
          urlId |-> result.urlId,
          success |-> IF result.success THEN 1 ELSE 0,
          message |-> result.message,
          totalPages |-> result.totalPages])

SavedPages(result) ==
  brokenPageRows
    \o [i \in 1..Len(result.brokenPages) |->
          BrokenPageRow(resultSeq + 1, result.brokenPages[i])]

\* ------------------------------------------------------------------------
\* scan-all
\* ------------------------------------------------------------------------

\* How the crawl of one site can end: crawlAndCheckUrls returns its
\* brokenPages or throws.
CrawlOutcomes ==
  {[kind |-> "returned", brokenPages |-> b] :
     b \in { <<>>,
             <<[url |-> PageEnX, status |-> 404]>>,
             <<[url |-> PageEnX, error |-> TimedOutMessage],
               [url |-> PageEnY, status |-> 500]>> }}
    \cup {[kind |-> "threw", message |-> <<"fetch failed">>]}

NoOutcome == [kind |-> "none"]

\* `Found ${n} broken pages`
FoundMessage(n) ==
  IF n > 0 THEN <<"Found", ToString(n), "broken pages">> ELSE <<"No broken pages found">>

\* The scanResult with success standing for a crawl without broken pages.
SuccessResultIfClean(urlId, result) ==
  [urlId |-> urlId,
   brokenPages |-> result.brokenPages,
   success |-> Len(result.brokenPages) = 0,
   message |-> FoundMessage(Len(result.brokenPages)),
   totalPages |-> 0]

\* The scanResult of a crawl that returned.
SuccessResult(urlId, result) ==
  [urlId |-> urlId,
   brokenPages |-> result.brokenPages,
   success |-> TRUE,
   message |-> FoundMessage(Len(result.brokenPages)),
   totalPages |-> 0]

\* The scanResult of the catch block; saveScanResult stores
\* result.totalPages || 0.
FailureResult(urlId, errorMessage) ==
  [urlId |-> urlId,
   brokenPages |-> <<>>,
   success |-> FALSE,
   message |-> <<"Error: ">> \o errorMessage,
   totalPages |-> 0]

\* getRegisteredUrls(): ORDER BY created_at DESC, the latest id first.
RECURSIVE Descending(_)
Descending(S) ==
  IF S = {} THEN <<>>
  ELSE LET m == CHOOSE x \in S : \A y \in S : y <= x
       IN <<m>> \o Descending(S \ {m})

\* No document is being parsed.
ParseIdle == xDoc = [kind |-> "other"] /\ xOut = <<>> /\ xpc = "idle"

\* Nothing is being normalized, nothing deduplicated.
NormIdle ==
  /\ nRec = NoRec /\ nUrl = <<>> /\ nAlt = <<>> /\ nRel = "none"
  /\ nKey = <<>> /\ nAltKey = <<>> /\ nKey2 = <<>> /\ npc = "idle"

DedupIdle == dList = <<>> /\ dOut = <<>> /\ dpc = "idle"

\* The locations of the sitemap documents of a site.
SitemapNames ==
  { <<"http", ":", "/", "/", "a", "/", "s1.xml">>,
    <<"http", ":", "/", "/", "a", "/", "s2.xml">> }

\* No probe locations are being built.
LocateIdle == lBase = <<>> /\ lOut = <<>> /\ lpc = "idle"

\* No page is being searched for anchors.
ExtractIdle == eBase = <<>> /\ eHrefs = <<>> /\ eOut = <<>> /\ epc = "idle"

\* No sitemap is being followed.
NestIdle == web = [u \in SitemapNames |-> [kind |-> "notok"]] /\ callStack = <<>>

ScanIdle ==
  /\ registeredUrls = {} /\ hasTotalPages = TRUE /\ resultSeq = 0
  /\ scanResults = <<>> /\ brokenPageRows = <<>>
  /\ spc = "idle" /\ scanUrls = <<>>
  /\ task = [s \in Sites |-> "none"]
  /\ taskResult = [s \in Sites |-> NoOutcome]
  /\ scanResponse = [kind |-> "none"]
  /\ crawlOutcome = [s \in Sites |-> NoOutcome]

\* No row of registered_urls.
NoRow == [url |-> <<>>, name |-> <<>>]

\* The row of a site registered before the model starts.
RowOfSite(s) ==
  [url |-> <<"http", ":", "/", "/", "site", "/", ToString(s)>>, name |-> <<"site">>]

\* No request to /api/urls was made: the rows are those of the registered
\* ids, the clock is not before the latest of them.
UrlsIdle ==
  /\ urlRow = [s \in Sites |-> IF s \in registeredUrls THEN RowOfSite(s) ELSE NoRow]
  /\ now = IF registeredUrls = {} THEN 1
           ELSE CHOOSE x \in registeredUrls : \A y \in registeredUrls : y <= x
  /\ urlsRequest = [method |-> "none"]
  /\ urlsResponse = [kind |-> "none"]

InitScan ==
  /\ registeredUrls \in {S \in SUBSET Sites : Cardinality(S) <= MaxSites}
  /\ hasTotalPages \in BOOLEAN /\ resultSeq = 0
  /\ scanResults = <<>> /\ brokenPageRows = <<>>
  /\ spc = "idle" /\ scanUrls = <<>>
  /\ task = [s \in Sites |-> "none"]
  /\ taskResult = [s \in Sites |-> NoOutcome]
  /\ scanResponse = [kind |-> "none"]
  /\ crawlOutcome = [s \in Sites |-> NoOutcome]
  /\ NormIdle /\ DedupIdle /\ CrawlIdle /\ ParseIdle /\ UrlsIdle /\ NestIdle /\ ExtractIdle /\ LocateIdle

\* action(): the urls are read and urls.map starts the scan of every one.
ScanAllRequest(method) ==
  /\ spc = "idle"
  /\ IF method # "POST"
     THEN /\ scanResponse' = [kind |-> "rejected", status |-> 405,
                              error |-> <<"Method not allowed">>]
          /\ spc' = "responded"
          /\ UNCHANGED <<scanUrls, task>>
     ELSE IF registeredUrls = {}
     THEN /\ scanResponse' = [kind |-> "empty", status |-> 200,
                              message |-> <<"No URLs registered">>]
          /\ spc' = "responded"
          /\ UNCHANGED <<scanUrls, task>>
     ELSE /\ scanUrls' = Descending(registeredUrls)
          /\ task' = [s \in Sites |-> IF s \in registeredUrls THEN "crawling" ELSE "none"]
          /\ spc' = "running"
          /\ UNCHANGED scanResponse
  /\ UNCHANGED <<storeVars, taskResult, crawlOutcome, normVars, dedupVars, crawlVars,
                 parseVars, urlsVars, nestVars, extractVars, locateVars>>

\* One site's async function after await crawlAndCheckUrls: the try block
\* saves the result of a crawl that returned; the catch block, entered when
\* the crawl or that save threw, saves a failure; a save that throws in the
\* catch block rejects the promise.
ScanCrawlSettle(s, outcome) ==
  /\ task[s] = "crawling"
  /\ crawlOutcome' = [crawlOutcome EXCEPT ![s] = outcome]
  /\ LET ok == SuccessResult(s, outcome)
         failed == FailureResult(s, IF outcome.kind = "threw" THEN outcome.message
                                    ELSE SaveErrorNow)
     IN IF outcome.kind = "returned" /\ ~SaveThrows(ok)
        THEN /\ scanResults' = SavedResults(ok)
             /\ brokenPageRows' = SavedPages(ok)
             /\ taskResult' = [taskResult EXCEPT ![s] =
                  [kind |-> "result", id |-> resultSeq + 1, scanResult |-> ok]]
             /\ resultSeq' = resultSeq + 1
             /\ task' = [task EXCEPT ![s] = "fulfilled"]
        ELSE IF ~SaveThrows(failed)
        THEN /\ scanResults' = SavedResults(failed)
             /\ brokenPageRows' = SavedPages(failed)
             /\ taskResult' = [taskResult EXCEPT ![s] =
                  [kind |-> "result", id |-> resultSeq + 1, scanResult |-> failed]]
             /\ resultSeq' = resultSeq + 1
             /\ task' = [task EXCEPT ![s] = "fulfilled"]
        ELSE /\ task' = [task EXCEPT ![s] = "rejected"]
             /\ UNCHANGED <<resultSeq, scanResults, brokenPageRows, taskResult>>
  /\ UNCHANGED <<registeredUrls, hasTotalPages, spc, scanUrls, scanResponse,
                 normVars, dedupVars, crawlVars, parseVars, urlsVars, nestVars,
                 extractVars, locateVars>>

\* The sites of scanPromises.slice(from, to), one-based and inclusive.
Batch(from, to) ==
  {scanUrls[i] : i \in {j \in 1..Len(scanUrls) : from <= j /\ j <= to}}

FirstBatch == Batch(1, MAX_CONCURRENT_SCANS)
SecondBatch == Batch(MAX_CONCURRENT_SCANS + 1, Len(scanUrls))

\* The handler's two awaits of Promise.all end: with the results of all the
\* promises, or in the catch block with the first rejection.
ScanRespond ==
  /\ spc = "running"
  /\ LET firstDone == \A s \in FirstBatch : task[s] = "fulfilled"
         rejected ==
           \/ \E s \in FirstBatch : task[s] = "rejected"
           \/ firstDone /\ \E s \in SecondBatch : task[s] = "rejected"
         allDone == firstDone /\ \A s \in SecondBatch : task[s] = "fulfilled"
     IN /\ rejected \/ allDone
        /\ scanResponse' =
             IF rejected
             THEN [kind |-> "error", status |-> 500, error |-> TRUE,
                   message |-> SaveErrorNow]
             ELSE [kind |-> "results", status |-> 200,
                   message |-> <<"Scanned", ToString(Len(scanUrls)), "URLs">>,
                   results |-> [i \in 1..Len(scanUrls) |-> taskResult[scanUrls[i]]]]
  /\ spc' = "responded"
  /\ UNCHANGED <<storeVars, scanUrls, task, taskResult, crawlOutcome,
                 normVars, dedupVars, crawlVars, parseVars, urlsVars, nestVars,
                 extractVars, locateVars>>

NextScan ==
  \/ \E method \in {"GET", "POST"} : ScanAllRequest(method)
  \/ \E s \in Sites, outcome \in CrawlOutcomes : ScanCrawlSettle(s, outcome)
  \/ ScanRespond

SpecScan == InitScan /\ [][NextScan]_vars

\* Scan-all over a table holding more sites than MAX_CONCURRENT_SCANS, every
\* crawl of which fails (the sites are unreachable).
InitScanMany ==
  /\ registeredUrls = Sites
  /\ hasTotalPages \in BOOLEAN /\ resultSeq = 0
  /\ scanResults = <<>> /\ brokenPageRows = <<>>
  /\ spc = "idle" /\ scanUrls = <<>>
  /\ task = [s \in Sites |-> "none"]
  /\ taskResult = [s \in Sites |-> NoOutcome]
  /\ scanResponse = [kind |-> "none"]
  /\ crawlOutcome = [s \in Sites |-> NoOutcome]
  /\ NormIdle /\ DedupIdle /\ CrawlIdle /\ ParseIdle /\ UrlsIdle /\ NestIdle /\ ExtractIdle /\ LocateIdle

NextScanMany ==
  \/ ScanAllRequest("POST")
  \/ \E s \in Sites :
       ScanCrawlSettle(s, [kind |-> "threw", message |-> <<"fetch failed">>])
  \/ ScanRespond

SpecScanMany == InitScanMany /\ [][NextScanMany]_vars

\* ------------------------------------------------------------------------
\* parseXmlSitemap call by call, on a site whose indexes may list one another
\* ------------------------------------------------------------------------

\* What fetching a sitemap location gives: a <sitemapindex> listing
\* locations of the site, a <urlset>, or a response that is not ok.
NestDocs ==
  {[kind |-> "index", locs |-> l] :
     l \in SeqsUpTo(SitemapNames, MaxNested) \ {<<>>}}
    \cup {[kind |-> "urlset"], [kind |-> "notok"]}

\* parseXmlSitemap was called with the document of a location that answered.
InitNest ==
  /\ web \in [SitemapNames -> NestDocs]
  /\ \E root \in SitemapNames :
       /\ web[root].kind # "notok"
       /\ callStack = <<[url |-> root, next |-> 1]>>
  /\ CrawlIdle /\ NormIdle /\ DedupIdle /\ ScanIdle /\ ParseIdle /\ UrlsIdle /\ ExtractIdle /\ LocateIdle

\* The call stack with the innermost call moved on to its next location.
Advanced(stack) ==
  IF stack = <<>> THEN <<>>
  ELSE [stack EXCEPT ![Len(stack)].next = stack[Len(stack)].next + 1]

\* The innermost call, in a <sitemapindex>, fetches its next location: a
\* response that is not ok gives [], any other is handed to parseXmlSitemap.
\* Nothing in the call counts how deep it is.
NestedFetch ==
  /\ callStack # <<>>
  /\ Len(callStack) < MaxDepth
  /\ LET call == callStack[Len(callStack)]
         doc == web[call.url]
     IN /\ doc.kind = "index"
        /\ call.next <= Len(doc.locs)
        /\ callStack' =
             IF web[doc.locs[call.next]].kind = "notok"
             THEN Advanced(callStack)
             ELSE Append(callStack, [url |-> doc.locs[call.next], next |-> 1])
  /\ UNCHANGED <<web, normVars, dedupVars, crawlVars, scanVars, parseVars, urlsVars,
                 extractVars, locateVars>>

\* The innermost call returns: a <urlset>, or an index all of whose nested
\* calls have returned.
NestedReturn ==
  /\ callStack # <<>>
  /\ LET call == callStack[Len(callStack)]
         doc == web[call.url]
     IN doc.kind = "index" => call.next > Len(doc.locs)
  /\ callStack' = Advanced(SubSeq(callStack, 1, Len(callStack) - 1))
  /\ UNCHANGED <<web, normVars, dedupVars, crawlVars, scanVars, parseVars, urlsVars,
                 extractVars, locateVars>>

NextNest == NestedFetch \/ NestedReturn

SpecNest == InitNest /\ [][NextNest]_vars

\* ------------------------------------------------------------------------
\* extractUrlsFromPage on generated pages
\* ------------------------------------------------------------------------

\* href values: pages of the site, with the host in capitals, with a port
\* and with a fragment; a page of another host; paths from the root; an
\* empty href and one new URL() rejects.
ExtractHrefs ==
  { PageEnX, PageEnXUp, PageEnXFr, PageOther,
    <<"http", ":", "/", "/", "a", ":", "8080", "/", "en", "/", "x">>,
    <<"/", "en", "/", "y">>, <<>>, <<"http", ":", "/", "/">> }

ExtractBases == {b \in BaseUrls : ParseUrl(b).ok}

InitExtract ==
  /\ eBase \in ExtractBases
  /\ eHrefs \in SeqsUpTo(ExtractHrefs, MaxHrefs)
  /\ eOut = <<>> /\ epc = "start"
  /\ CrawlIdle /\ NormIdle /\ DedupIdle /\ ScanIdle /\ ParseIdle /\ UrlsIdle /\ LocateIdle
  /\ NestIdle

\* const urls = await extractUrlsFromPage(baseUrl), the page fetched.
ExtractFromPage ==
  /\ epc = "start"
  /\ eOut' = ExtractLinks(eHrefs, eBase, <<>>)
  /\ epc' = "done"
  /\ UNCHANGED <<eBase, eHrefs, normVars, dedupVars, crawlVars, scanVars, parseVars,
                 urlsVars, nestVars, locateVars>>

NextExtract == ExtractFromPage

SpecExtract == InitExtract /\ [][NextExtract]_vars

\* ------------------------------------------------------------------------
\* The probe locations of findAndParseSitemaps on generated base URLs
\* ------------------------------------------------------------------------

\* Base URLs: a host alone, a root, a directory without and with its final
\* slash, and sitemap documents, with and without a port.
LocateBases ==
  { <<scheme, ":", "/", "/">> \o host \o port \o path :
      scheme \in Schemes,
      host \in Hosts,
      port \in {<<>>, <<":", "8080">>},
      path \in { <<>>, <<"/">>, <<"/", "en">>, <<"/", "en", "/">>,
                 <<"/", "sitemap.xml">>, <<"/", "en", "/", "sitemap_index.xml">>,
                 <<"/", "SITEMAP.XML">>, <<"/", "en", "/", "x">> } }

InitLocate ==
  /\ lBase \in LocateBases /\ lOut = <<>> /\ lpc = "start"
  /\ CrawlIdle /\ NormIdle /\ DedupIdle /\ ScanIdle /\ ParseIdle /\ UrlsIdle
  /\ NestIdle /\ ExtractIdle

\* findAndParseSitemaps up to the loop over sitemapLocations.
Locate ==
  /\ lpc = "start"
  /\ lOut' = SitemapLocationsOf(lBase)
  /\ lpc' = "done"
  /\ UNCHANGED <<lBase, normVars, dedupVars, crawlVars, scanVars, parseVars,
                 urlsVars, nestVars, extractVars>>

NextLocate == Locate

SpecLocate == InitLocate /\ [][NextLocate]_vars

\* ------------------------------------------------------------------------
\* POST /api/urls (app/routes/api.urls.ts) and addRegisteredUrl
\* ------------------------------------------------------------------------

\* The form's url and name; <<>> is a field that is missing or empty.
UrlInputs == { <<>>, <<"http", ":", "/", "/", "a", "/">>, PageEnX }
NameInputs == { <<>>, <<"shop">> }

AlreadyRegisteredMessage == <<"URL already registered">>

\* An INSERT that passes the PRIMARY KEY of id and ignores UNIQUE of url.
InsertFailsKeyOnly(id, url) == id \in registeredUrls

\* The INSERT into registered_urls fails with 'UNIQUE constraint failed':
\* id TEXT PRIMARY KEY, url TEXT NOT NULL UNIQUE.
InsertFails(id, url) ==
  \/ id \in registeredUrls
  \/ \E s \in registeredUrls : urlRow[s].url = url

\* addRegisteredUrl(url, name): the id is Date.now().toString(); a failed
\* unique constraint is thrown on as 'URL already registered'.
addRegisteredUrl(url, name) ==
  LET id == now
  IN IF InsertFails(id, url)
     THEN [threw |-> TRUE, message |-> AlreadyRegisteredMessage]
     ELSE [threw |-> FALSE, id |-> id, url |-> url, name |-> name]

\* action() of /api/urls for a request that is not a DELETE.
UrlsRequest(method, url, name) ==
  /\ urlsRequest' = [method |-> method, url |-> url, name |-> name, id |-> now]
  /\ IF method # "POST"
     THEN /\ urlsResponse' = [kind |-> "rejected", status |-> 405,
                              error |-> <<"Method not allowed">>]
          /\ UNCHANGED <<urlRow, registeredUrls>>
     ELSE IF url = <<>> \/ name = <<>>
     THEN /\ urlsResponse' = [kind |-> "rejected", status |-> 400,
                              error |-> <<"URL and name are required">>]
          /\ UNCHANGED <<urlRow, registeredUrls>>
     ELSE LET newUrl == addRegisteredUrl(url, name)
          IN IF newUrl.threw
             THEN /\ urlsResponse' = [kind |-> "rejected", status |-> 400,
                                      error |-> newUrl.message]
                  /\ UNCHANGED <<urlRow, registeredUrls>>
             ELSE /\ urlRow' = [urlRow EXCEPT ![newUrl.id] = [url |-> url, name |-> name]]
                  /\ registeredUrls' = registeredUrls \cup {newUrl.id}
                  /\ urlsResponse' = [kind |-> "added", status |-> 200,
                                      id |-> newUrl.id, url |-> url, name |-> name]
  /\ UNCHANGED <<now, hasTotalPages, resultSeq, scanResults, brokenPageRows, spc, scanUrls, task,
                 taskResult, scanResponse, crawlOutcome, normVars, dedupVars,
                 crawlVars, parseVars, nestVars, extractVars, locateVars>>

\* A millisecond passes.
ClockTick ==
  /\ now + 1 \in Sites
  /\ now' = now + 1
  /\ UNCHANGED <<urlRow, urlsRequest, urlsResponse, scanVars, normVars, dedupVars,
                 crawlVars, parseVars, nestVars, extractVars, locateVars>>

InitUrls == CrawlIdle /\ NormIdle /\ DedupIdle /\ ScanIdle /\ ParseIdle /\ UrlsIdle /\ NestIdle /\ ExtractIdle /\ LocateIdle

NextUrls ==
  \/ \E method \in {"POST", "PUT"}, url \in UrlInputs, name \in NameInputs :
       UrlsRequest(method, url, name)
  \/ ClockTick

SpecUrls == InitUrls /\ [][NextUrls]_vars

\* ------------------------------------------------------------------------
\* DELETE /api/urls and removeRegisteredUrl, beside a running scan-all
\* ------------------------------------------------------------------------

\* The ids of the scan_results rows of URL id.
ResultIdsOf(id) == {scanResults[i].id : i \in ResultsOfUrl(id)}

\* removeRegisteredUrl(id) with the DELETE of scan_results left out.
removeRegisteredUrlKeepingResults(id) ==
  [brokenPageRows |-> SelectSeq(brokenPageRows, LAMBDA p : p.resultId \notin ResultIdsOf(id)),
   scanResults |-> scanResults,
   registeredUrls |-> registeredUrls \ {id},
   returned |-> id \in registeredUrls]

\* removeRegisteredUrl(id), one transaction: the broken pages of every result
\* of the URL, its results and its row are deleted; result.changes > 0 is
\* returned.
removeRegisteredUrl(id) ==
  [brokenPageRows |-> SelectSeq(brokenPageRows, LAMBDA p : p.resultId \notin ResultIdsOf(id)),
   scanResults |-> SelectSeq(scanResults, LAMBDA r : r.urlId # id),
   registeredUrls |-> registeredUrls \ {id},
   returned |-> id \in registeredUrls]

\* The latest millisecond of the requests made beside a scan.
MaxStoreClock == 3

\* The id of a DELETE body; 0 is a body without id.
DeleteIds == 0..MaxStoreClock

\* action() of /api/urls for a DELETE.
DeleteRequest(id) ==
  /\ urlsRequest' = [method |-> "DELETE", id |-> id]
  /\ IF id = 0
     THEN /\ urlsResponse' = [kind |-> "rejected", status |-> 400,
                              error |-> <<"ID is required">>]
          /\ UNCHANGED <<urlRow, registeredUrls, scanResults, brokenPageRows>>
     ELSE LET removed == removeRegisteredUrl(id)
          IN /\ brokenPageRows' = removed.brokenPageRows
             /\ scanResults' = removed.scanResults
             /\ registeredUrls' = removed.registeredUrls
             /\ urlRow' = [urlRow EXCEPT ![id] = NoRow]
             /\ urlsResponse' =
                  IF ~removed.returned
                  THEN [kind |-> "rejected", status |-> 404, error |-> <<"URL not found">>]
                  ELSE [kind |-> "removed", status |-> 200, success |-> TRUE]
  /\ UNCHANGED <<now, hasTotalPages, resultSeq, spc, scanUrls, task, taskResult,
                 scanResponse, crawlOutcome, normVars, dedupVars, crawlVars,
                 parseVars, nestVars, extractVars, locateVars>>

\* How a crawl ends beside the requests: with one broken page, or throwing.
StoreOutcomes ==
  { [kind |-> "returned", brokenPages |-> <<[url |-> PageEnX, status |-> 404]>>],
    [kind |-> "threw", message |-> <<"fetch failed">>] }

\* The table holds registered sites and may have the column total_pages.
InitStore == InitScan /\ registeredUrls \subseteq 1..MaxSites

NextStore ==
  \/ ScanAllRequest("POST")
  \/ \E s \in Sites, outcome \in StoreOutcomes : ScanCrawlSettle(s, outcome)
  \/ ScanRespond
  \/ UrlsRequest("POST", PageEnX, <<"shop">>)
  \/ now < MaxStoreClock /\ ClockTick
  \/ \E id \in DeleteIds : DeleteRequest(id)

SpecStore == InitStore /\ [][NextStore]_vars

\* ------------------------------------------------------------------------
\* normalizeUrl and the deduplication on generated inputs
\* ------------------------------------------------------------------------

InitNorm ==
  /\ \/ \E r \in UrlRecs :
          /\ WellFormedRec(r)
          /\ \E r2 \in EquivalentRecs(r) :
               /\ nRec = r /\ nUrl = Render(r) /\ nAlt = Render(r2)
               /\ nRel = "equiv"
     \/ \E r \in UrlRecs :
          /\ WellFormedRec(r) /\ ~r.hasFrag
          /\ \E r2 \in MateriallyDifferentRecs(r) :
               /\ nRec = r /\ nUrl = Render(r) /\ nAlt = Render(r2)
               /\ nRel = "differ"
     \/ \E r \in UrlRecs :
          /\ WellFormedRec(r)
          /\ \E q \in PathVariants(r.path) :
               /\ nRec = r /\ nUrl = Render(r) /\ nAlt = Render([r EXCEPT !.path = q])
               /\ nRel = "path"
     \/ \E raw \in RawInputs :
          nRec = NoRec /\ nUrl = raw /\ nAlt = raw /\ nRel = "raw"
  /\ nKey = <<>> /\ nAltKey = <<>> /\ nKey2 = <<>> /\ npc = "start"
  /\ DedupIdle /\ CrawlIdle /\ ScanIdle /\ ParseIdle /\ UrlsIdle /\ NestIdle /\ ExtractIdle /\ LocateIdle

\* const k = normalizeUrl(u), for both inputs, and normalizeUrl(k).
Normalize ==
  /\ npc = "start"
  /\ nKey' = normalizeUrl(nUrl)
  /\ nAltKey' = normalizeUrl(nAlt)
  /\ nKey2' = normalizeUrl(normalizeUrl(nUrl))
  /\ npc' = "done"
  /\ UNCHANGED <<nRec, nUrl, nAlt, nRel, dedupVars, crawlVars, scanVars, parseVars,
                 urlsVars, nestVars, extractVars, locateVars>>

NextNorm == Normalize

SpecNorm == InitNorm /\ [][NextNorm]_vars

InitDedup ==
  /\ dList \in SeqsUpTo(UrlPool, MaxList)
  /\ dOut = <<>> /\ dpc = "start"
  /\ NormIdle /\ CrawlIdle /\ ScanIdle /\ ParseIdle /\ UrlsIdle /\ NestIdle /\ ExtractIdle /\ LocateIdle

\* The deduplication loop and Array.from(urlMap.values()).
Dedupe ==
  /\ dpc = "start"
  /\ dOut' = DedupeByKey(dList)
  /\ dpc' = "done"
  /\ UNCHANGED <<dList, normVars, crawlVars, scanVars, parseVars, urlsVars, nestVars,
                 extractVars, locateVars>>

NextDedup == Dedupe

SpecDedup == InitDedup /\ [][NextDedup]_vars

\* ------------------------------------------------------------------------
\* parseXmlSitemap on generated documents
\* ------------------------------------------------------------------------

InitParse ==
  /\ xDoc \in ExpansionDocs /\ xOut = <<>> /\ xpc = "start"
  /\ NormIdle /\ DedupIdle /\ CrawlIdle /\ ScanIdle /\ UrlsIdle /\ NestIdle /\ ExtractIdle /\ LocateIdle

\* const urls = await parseXmlSitemap(xmlText)
ParseSitemap ==
  /\ xpc = "start"
  /\ xOut' = parseXmlSitemap(xDoc)
  /\ xpc' = "done"
  /\ UNCHANGED <<xDoc, normVars, dedupVars, crawlVars, scanVars, urlsVars, nestVars,
                 extractVars, locateVars>>

NextParse == ParseSitemap

SpecParse == InitParse /\ [][NextParse]_vars

\* ------------------------------------------------------------------------
\* The endpoint and its crawl
\* ------------------------------------------------------------------------

Init == CrawlIdle /\ NormIdle /\ DedupIdle /\ ScanIdle /\ ParseIdle /\ UrlsIdle /\ NestIdle /\ ExtractIdle /\ LocateIdle

Next ==
  \/ \E req \in Requests : ApiRequest(req)
  \/ SitemapSetup
  \/ SitemapProbeIssue
  \/ \E resp \in ProbeResponses : SitemapProbe(resp)
  \/ SelectSource
  \/ \E resp \in ExtractResponses : ExtractSettle(resp)
  \/ CheckIssue
  \/ \E outcome \in CheckOutcomes \cup {InvalidUrlOutcome} : CheckSettle(outcome)
  \/ PaceElapsed
  \/ ApiRespond

Spec == Init /\ [][Next]_vars

\* ------------------------------------------------------------------------
\* Claims
\* ------------------------------------------------------------------------

\* A page check that counts as broken: status >= 400, timeout, failed fetch.
IsBrokenOutcome(o) == o.kind # "response" \/ o.status >= 400

\* What the page check that ended as o must have added to brokenPages.
AddedIsAsClaimed(o, added) ==
  /\ (o.outcome.kind = "response" /\ o.outcome.status >= 400) =>
        /\ Len(added) = 1
        /\ DOMAIN added[1] = {"url", "status"}
        /\ added[1].url = o.url /\ added[1].status = o.outcome.status
  /\ (o.outcome.kind = "response" /\ o.outcome.status < 400) => added = <<>>
  /\ o.outcome.kind = "abort" =>
        /\ Len(added) = 1
        /\ DOMAIN added[1] = {"url", "error"}
        /\ added[1].url = o.url
        /\ \E w \in 1..Len(added[1].error) : added[1].error[w] = "timed out"
  /\ o.outcome.kind = "error" =>
        /\ Len(added) = 1
        /\ DOMAIN added[1] = {"url", "error"}
        /\ added[1].url = o.url /\ added[1].error = o.outcome.message

\* C1: every page check is classified as stated: a status >= 400 adds one
\* entry with that status and no error, a status < 400 adds nothing, a timeout
\* adds one entry whose error contains "timed out" and no status, any other
\* failed fetch adds one entry with the failure's message and no status.
C1_Classification ==
  [][Len(outcomes') = Len(outcomes) + 1 =>
       /\ Len(brokenPages') >= Len(brokenPages)
       /\ SubSeq(brokenPages', 1, Len(brokenPages)) = brokenPages
       /\ AddedIsAsClaimed(outcomes'[Len(outcomes')],
                           SubSeq(brokenPages', Len(brokenPages) + 1, Len(brokenPages')))]_vars

\* A crawl has checked a page that timed out, one that answered 500 and one
\* that answered 200.
C1_Witness ==
  /\ pc = "returned"
  /\ \E i, j, k \in 1..Len(outcomes) :
       /\ outcomes[i].outcome.kind = "abort"
       /\ outcomes[j].outcome = [kind |-> "response", status |-> 500]
       /\ outcomes[k].outcome = [kind |-> "response", status |-> 200]
  /\ Len(brokenPages) = 2

\* Every candidate of the loop has been checked, in order.
AllChecked ==
  /\ Len(outcomes) = Len(uniqueUrlsToCrawl)
  /\ \A i \in 1..Len(outcomes) : outcomes[i].url = uniqueUrlsToCrawl[i]

\* What is left of the loop: the candidates from idx on, each with the three
\* steps of its turn (the loop's head, the fetch, the pacing).
Remaining ==
  3 * (Len(uniqueUrlsToCrawl) + 1 - idx)
    + (CASE pc = "check" -> 2 [] pc = "fetching" -> 1 [] OTHER -> 0)

\* The loop can take its next step: its head has no condition but its place,
\* the fetch can settle, the pacing can end.
LoopCanStep ==
  \/ pc = "check"
  \/ /\ pc = "fetching"
     /\ ENABLED (\E outcome \in CheckOutcomes \cup {InvalidUrlOutcome} : CheckSettle(outcome))
  \/ pc = "pacing" /\ ENABLED PaceElapsed

\* C2: once in the Checking phase the crawl never ends in Failed: whatever a
\* page check gives, each step leaves it in Checking with less of the loop
\* left, or Done with every candidate checked, and it can always step.
C2_CheckingNeverFails ==
  /\ [][Phase = "Checking" =>
          \/ Phase' = "Checking" /\ Remaining' < Remaining /\ Remaining' >= 0
          \/ Phase' = "Done" /\ AllChecked']_<<pc, idx, brokenPages, outcomes>>
  /\ [](Phase = "Checking" => LoopCanStep)

\* A crawl is Done after a timeout, a failed fetch and a 500.
C2_Witness ==
  /\ Phase = "Done"
  /\ \E i, j, k \in 1..Len(outcomes) :
       /\ outcomes[i].outcome.kind = "abort"
       /\ outcomes[j].outcome.kind = "error"
       /\ outcomes[k].outcome = [kind |-> "response", status |-> 500]

\* The URLs of the candidates whose check ended broken, in checking order.
BrokenCandidates ==
  LET broken == SelectSeq(outcomes, LAMBDA o : IsBrokenOutcome(o.outcome))
  IN [i \in 1..Len(broken) |-> broken[i].url]

\* C3: when the crawl returns, brokenPages holds exactly one entry for each
\* candidate whose check ended broken, none for a healthy candidate or for a
\* URL that is no candidate, in the order of the checks.
C3_BrokenPagesExact ==
  pc = "returned" =>
    /\ AllChecked
    /\ [i \in 1..Len(brokenPages) |-> brokenPages[i].url] = BrokenCandidates
    /\ \A i \in 1..Len(brokenPages) :
         /\ \E c \in 1..Len(uniqueUrlsToCrawl) : uniqueUrlsToCrawl[c] = brokenPages[i].url
         /\ \A j \in 1..Len(brokenPages) : brokenPages[j].url = brokenPages[i].url => j = i
    /\ \A c \in 1..Len(uniqueUrlsToCrawl) :
         ~IsBrokenOutcome(outcomes[c].outcome) =>
           \A i \in 1..Len(brokenPages) : brokenPages[i].url # uniqueUrlsToCrawl[c]

\* A crawl returned with a healthy candidate between two broken ones.
C3_Witness ==
  /\ pc = "returned"
  /\ Len(outcomes) = 3
  /\ IsBrokenOutcome(outcomes[1].outcome)
  /\ ~IsBrokenOutcome(outcomes[2].outcome)
  /\ IsBrokenOutcome(outcomes[3].outcome)
  /\ Len(brokenPages) = 2

\* C4: the report of a crawl has error = true exactly when broken pages were
\* found or the crawl failed: no broken page gives {error: false, message:
\* "No broken pages found"} without pages, N > 0 give {error: true, message:
\* "There are N broken pages", pages: the N URLs}, a failed crawl gives
\* {error: true, message: the failure text} without pages.
C4_ReportShape ==
  (apc = "responded" /\ pc # "idle") =>
    /\ response.kind = "report"
    /\ response.error = TRUE <=> (pc = "threw" \/ Len(brokenPages) > 0)
    /\ (pc = "returned" /\ Len(brokenPages) = 0) =>
         /\ DOMAIN response = {"kind", "status", "error", "message"}
         /\ response.error = FALSE
         /\ response.message = <<"No broken pages found">>
    /\ (pc = "returned" /\ Len(brokenPages) > 0) =>
         /\ DOMAIN response = {"kind", "status", "error", "message", "pages"}
         /\ response.error = TRUE
         /\ response.message = <<"There are", ToString(Len(brokenPages)), "broken pages">>
         /\ Len(response.pages) = Len(brokenPages)
         /\ \A i \in 1..Len(brokenPages) :
              response.pages[i] = [url |-> brokenPages[i].url]
    /\ pc = "threw" =>
         /\ DOMAIN response = {"kind", "status", "error", "message"}
         /\ response.error = TRUE
         /\ response.message = thrown

\* The endpoint has reported two broken pages.
C4_Witness ==
  /\ apc = "responded" /\ pc = "returned"
  /\ Len(brokenPages) = 2
  /\ response.message = <<"There are", "2", "broken pages">>

\* The broken_pages rows of the scan result with this id, in insertion order.
RowsOf(resultId) == SelectSeq(brokenPageRows, LAMBDA r : r.resultId = resultId)

\* The rows that storing these brokenPages under resultId gives.
RowsFor(resultId, pages) ==
  [i \in 1..Len(pages) |->
     [resultId |-> resultId,
      url |-> pages[i].url,
      status |-> IF "status" \in DOMAIN pages[i] THEN <<pages[i].status>> ELSE <<>>,
      error |-> IF "error" \in DOMAIN pages[i] THEN pages[i].error ELSE <<>>]]

\* C5: what scan-all saves keeps a crawl that completed apart from one that
\* failed: a saved result has success = true, with the crawl's broken pages,
\* exactly if the crawl returned, and has success = false, no broken page and
\* a message that starts with "Error: " exactly if the crawl threw.
C5_SavedResultsDistinguish ==
  \A i \in 1..Len(scanResults) :
    LET r == scanResults[i]
        o == crawlOutcome[r.urlId]
    IN /\ r.success = 1 <=> o.kind = "returned"
       /\ r.success = 1 => RowsOf(r.id) = RowsFor(r.id, o.brokenPages)
       /\ (r.success = 0 /\ RowsOf(r.id) = <<>> /\ Head(r.message) = "Error: ")
            <=> o.kind = "threw"

\* One scan saved a completed crawl with two broken pages and a failed crawl.
C5_Witness ==
  /\ Len(scanResults) = 2
  /\ \E i, j \in 1..2 :
       /\ scanResults[i].success = 1 /\ Len(RowsOf(scanResults[i].id)) = 2
       /\ scanResults[j].success = 0
       /\ crawlOutcome[scanResults[j].urlId].kind = "threw"

\* C6: every URL a page check is issued on has the hostname of the base URL.
C6_ChecksStayOnHost ==
  \A i \in 1..Len(fetchLog) :
    (fetchLog[i].kind = "check" /\ ParseUrl(fetchLog[i].url).ok) =>
      ParseUrl(fetchLog[i].url).hostname = ParseUrl(baseUrl).hostname

\* The crawl is past the choice of its source of candidates.
SourceChosen == pc \in {"extract", "check", "fetching", "pacing", "returned", "threw"}

\* C7: extractUrlsFromPage is invoked exactly when findAndParseSitemaps
\* returned no candidate, and only after every sitemap fetch; when the
\* resolver returned candidates, they alone are the candidate set.
C7_SourceSelection ==
  /\ extractCalled => (SourceChosen /\ sitemapUrls = <<>>)
  /\ (SourceChosen /\ sitemapUrls = <<>>) => extractCalled
  /\ \A i, j \in 1..Len(fetchLog) :
       (fetchLog[i].kind = "base" /\ fetchLog[j].kind = "sitemap") => j < i
  /\ (SourceChosen /\ Len(sitemapUrls) > 0) =>
       /\ urlsToCrawl = sitemapUrls
       /\ \A i \in 1..Len(fetchLog) : fetchLog[i].kind # "base"

\* Three sitemap probes gave nothing and the anchors of the base page are
\* being checked.
C7_Witness ==
  /\ extractCalled /\ pc = "fetching"
  /\ Len(fetchLog) = 5
  /\ fetchLog[4].kind = "base"

\* The index of the first element of list whose key is that of list[i].
FirstWithKey(list, i) ==
  CHOOSE j \in 1..i :
    /\ normalizeUrl(list[j]) = normalizeUrl(list[i])
    /\ \A k \in 1..(j - 1) : normalizeUrl(list[k]) # normalizeUrl(list[i])

\* The positions of list that hold the first URL of their key.
FirstPositions(list) == {i \in 1..Len(list) : FirstWithKey(list, i) = i}

\* C8: the deduplicated output is no longer than the input, no two of its
\* elements have the same key, every key of the input is in it, and each
\* element is the first input URL of its key, in the input's order.
C8_DedupByKey ==
  dpc = "done" =>
    /\ Len(dOut) <= Len(dList)
    /\ \A i, j \in 1..Len(dOut) :
         normalizeUrl(dOut[i]) = normalizeUrl(dOut[j]) => i = j
    /\ \A i \in 1..Len(dList) :
         \E j \in 1..Len(dOut) : normalizeUrl(dOut[j]) = normalizeUrl(dList[i])
    /\ Len(dOut) = Cardinality(FirstPositions(dList))
    /\ \A j \in 1..Len(dOut) :
         \E i \in FirstPositions(dList) :
           /\ Cardinality({k \in FirstPositions(dList) : k < i}) = j - 1
           /\ dOut[j] = dList[i]

\* A list whose second and third URL repeat the key of the first in other
\* spellings has been deduplicated.
C8_Witness ==
  /\ dpc = "done"
  /\ dList = <<PageEnXUp, PageEnX, PageEnXFr>>
  /\ dOut = <<PageEnXUp>>

\* C9: normalizeUrl(normalizeUrl(u)) = normalizeUrl(u) for every string u.
C9_Idempotent == npc = "done" => nKey2 = nKey

\* The <<name, value>> pairs of the query of a URL string.
QueryPairsOf(url) == ParseParams(ParseUrl(url).search)

\* Pairs in order of name, then of value.
PairLess(p, q) == StrLess(p[1], q[1]) \/ (p[1] = q[1] /\ StrLess(p[2], q[2]))

SortedByNameThenValue(pairs) ==
  \A i, j \in 1..Len(pairs) : i < j => ~PairLess(pairs[j], pairs[i])

\* C10: two parseable URLs that differ only in the letter case of the host,
\* in the fragment or in the order of the query parameters have the same key,
\* and the key holds all the parameters sorted by name and then by value.
C10_EquivalentCollide ==
  (npc = "done" /\ nRel = "equiv") =>
    /\ nKey = nAltKey
    /\ IsPermutation(PiecesToPairs(nRec.pieces), QueryPairsOf(nKey))
    /\ SortedByNameThenValue(QueryPairsOf(nKey))

\* The parts of a URL string that make it another page.
MaterialParts(url) ==
  LET p == ParseUrl(url)
  IN <<p.protocol, p.port, p.pathname>>

\* C11: two parseable URLs that differ in scheme, in port, in path or in the
\* multiset of their query parameters never have the same key.
C11_DistinctNeverCollide ==
  (npc = "done" /\ nRel = "differ") =>
    /\ ParseUrl(nUrl).ok /\ ParseUrl(nAlt).ok
    /\ \/ MaterialParts(nUrl) # MaterialParts(nAlt)
       \/ ~IsPermutation(QueryPairsOf(nUrl), QueryPairsOf(nAlt))
    /\ nKey # nAltKey

\* The first segment of the path of a URL string, <<>> if it has none.
FirstSegment(url) ==
  LET parts == PathParts(ParseUrl(url).pathname)
  IN IF ParseUrl(url).ok /\ Len(parts) > 0 THEN parts[1] ELSE <<>>

\* The first segment of the base URL's path once a sitemap file name at its
\* end is taken off.
BaseLocale ==
  LET parts == PathParts(ParseUrl(baseUrl).pathname)
      kept == IF IsSitemapUrl(baseUrl) /\ Len(parts) > 0
              THEN SubSeq(parts, 1, Len(parts) - 1) ELSE parts
  IN IF Len(kept) > 0 THEN kept[1] ELSE <<>>

\* url is among the URLs returned, up to deduplication.
ReturnedUpToKey(url) ==
  \E j \in 1..Len(sitemapUrls) : normalizeUrl(sitemapUrls[j]) = normalizeUrl(url)

\* C12: when findAndParseSitemaps returns, with a base URL whose first path
\* segment is L every URL it returns has the first path segment L exactly, and
\* every listed URL with first segment L is returned up to deduplication;
\* with a base URL without path segment every listed URL is returned.
C12_LocaleFilter ==
  (pc = "select" /\ ParseUrl(baseUrl).ok) =>
    /\ locale = BaseLocale
    /\ BaseLocale # <<>> =>
         /\ \A j \in 1..Len(sitemapUrls) : FirstSegment(sitemapUrls[j]) = BaseLocale
         /\ \A u \in discovered : FirstSegment(u) = BaseLocale => ReturnedUpToKey(u)
    /\ BaseLocale = <<>> => \A u \in discovered : ReturnedUpToKey(u)
    /\ \A j \in 1..Len(sitemapUrls) : sitemapUrls[j] \in discovered

\* With the base URL http://a/en/ the sitemaps listed an "en" page in two
\* spellings and an "fr" page; one "en" page is returned.
C12_Witness ==
  /\ pc = "select"
  /\ locale = <<"en">>
  /\ {PageEnX, PageEnXUp, PageFrX} \subseteq discovered
  /\ Len(sitemapUrls) = 1

\* The <loc> values of one nested sitemap: those of a URL set that was
\* fetched, none of a nested sitemap that was not fetched or not parsed.
NestedLocs(n) ==
  IF n.kind = "ok" /\ n.doc.kind = "urlset"
  THEN SelectSeq(n.doc.locs, LAMBDA l : l # <<>>)
  ELSE <<>>

\* An index whose nested sitemaps are URL sets or fail.
IsFlatIndex(doc) ==
  /\ doc.kind = "index"
  /\ \A i \in 1..Len(doc.nested) :
       doc.nested[i].kind = "ok" => doc.nested[i].doc.kind # "index"

\* The number of <loc> values of the first n nested sitemaps.
RECURSIVE LocsBefore(_, _)
LocsBefore(doc, n) ==
  IF n = 0 THEN 0 ELSE LocsBefore(doc, n - 1) + Len(NestedLocs(doc.nested[n]))

\* C13: for an index of URL sets parseXmlSitemap returns the <loc> values of
\* all the nested sitemaps, each sitemap's in its place, and a nested sitemap
\* that cannot be fetched or parsed adds nothing and takes nothing away.
C13_IndexExpansion ==
  (xpc = "done" /\ IsFlatIndex(xDoc)) =>
    /\ Len(xOut) = LocsBefore(xDoc, Len(xDoc.nested))
    /\ \A i \in 1..Len(xDoc.nested) :
         \A k \in 1..Len(NestedLocs(xDoc.nested[i])) :
           xOut[LocsBefore(xDoc, i - 1) + k] = NestedLocs(xDoc.nested[i])[k]

\* An index of two URL sets of two URLs each has given four URLs.
C13_Witness ==
  /\ xpc = "done" /\ IsFlatIndex(xDoc)
  /\ Len(xDoc.nested) = 2
  /\ \A i \in 1..2 : Len(NestedLocs(xDoc.nested[i])) = 2
  /\ Len(xOut) = 4

\* A fetch of the crawl is in flight: of a sitemap, of the base page, of a
\* candidate.
FetchInFlight == pc \in {"probing", "extract", "fetching"}

\* C14: every fetch of a crawl is bounded by a timeout that aborts it: while a
\* fetch is in flight its timer is armed, so that a server that never
\* responds cannot keep the crawl from reaching Done or Failed.
C14_EveryFetchBounded == FetchInFlight => abortTimer = "armed"


\* C15: while scan-all runs, the crawls in progress never exceed
\* MAX_CONCURRENT_SCANS.
CrawlsInProgress == {s \in Sites : task[s] = "crawling"}

C15_ConcurrencyCap == Cardinality(CrawlsInProgress) <= MAX_CONCURRENT_SCANS

\* C16: a base URL that cannot be parsed makes the crawl fail: it throws, the
\* endpoint reports the error, and no network request is made.
C16_UnparseableBaseFails ==
  (pc # "idle" /\ ~ParseUrl(baseUrl).ok) =>
    /\ fetchLog = <<>> /\ outcomes = <<>>
    /\ pc \in {"resolve", "select", "threw"}
    /\ pc = "threw" => thrown = InvalidUrlOutcome.message
    /\ apc = "responded" => pc = "threw" /\ response = ErrorReportOf(thrown)

C16_Witness ==
  /\ ~ParseUrl(baseUrl).ok
  /\ Phase = "Failed" /\ fetchLog = <<>>
  /\ apc = "responded" /\ response.status = 500 /\ response.error = TRUE

\* C17: when no sitemap gives candidates and the fetch of the base page is
\* rejected, the crawl fails: crawlAndCheckUrls throws the fetch's error
\* without issuing a page check, and the endpoint reports {error: true,
\* message} without a list of pages.
ExtractFailureMessages == {r.message : r \in {x \in ExtractResponses : x.kind = "error"}}

C17_ExtractionFailureFails ==
  extractFailed =>
    /\ sitemapUrls = <<>>
    /\ Phase = "Failed" /\ thrown \in ExtractFailureMessages
    /\ outcomes = <<>>
    /\ \A i \in 1..Len(fetchLog) : fetchLog[i].kind # "check"
    /\ apc = "responded" =>
         /\ response.error = TRUE /\ response.message = thrown
         /\ "pages" \notin DOMAIN response

C17_Witness ==
  /\ extractFailed /\ Phase = "Failed"
  /\ apc = "responded" /\ response = ErrorReportOf(<<"fetch failed">>)
  /\ \E i \in 1..Len(fetchLog) : fetchLog[i].kind = "base"

\* C18: registered URLs are unique. Registering a URL that is registered
\* raises 'URL already registered', which POST /api/urls answers with status
\* 400, and leaves the registered URLs as they were; no URL is ever stored
\* twice.
Registered(url) == \E s \in registeredUrls : urlRow[s].url = url

NoUrlTwice ==
  \A s \in registeredUrls : \A t \in registeredUrls :
    urlRow[s].url = urlRow[t].url => s = t

C18_RegisteredUrlsUnique ==
  [][/\ \A url \in UrlInputs \ {<<>>} : \A name \in NameInputs \ {<<>>} :
          (Registered(url) /\ UrlsRequest("POST", url, name)) =>
             /\ urlsResponse' = [kind |-> "rejected", status |-> 400,
                                 error |-> AlreadyRegisteredMessage]
             /\ urlRow' = urlRow /\ registeredUrls' = registeredUrls
     /\ NoUrlTwice']_vars

C18_Witness ==
  /\ urlsRequest.method = "POST"
  /\ urlsRequest.id \notin registeredUrls
  /\ \E s \in registeredUrls : urlRow[s].url = urlsRequest.url
  /\ Cardinality(registeredUrls) = 2
  /\ urlsResponse = [kind |-> "rejected", status |-> 400,
                     error |-> AlreadyRegisteredMessage]

\* C19: the page checks of one crawl are strictly sequential: at most one
\* page-check request is in flight at any time, and a check is issued only
\* when every check issued before it has completed, failed or timed out.
RECURSIVE ChecksIssued(_)
ChecksIssued(log) ==
  IF log = <<>> THEN 0
  ELSE ChecksIssued(Tail(log)) + (IF Head(log).kind = "check" THEN 1 ELSE 0)

ChecksInFlight == ChecksIssued(fetchLog) - Len(outcomes)

C19_ChecksSequential ==
  /\ ChecksInFlight \in {0, 1}
  /\ ChecksInFlight = 1 <=> pc = "fetching"
  /\ \A i \in 1..Len(outcomes) :
       \E j \in 1..Len(fetchLog) :
         /\ fetchLog[j] = [kind |-> "check", url |-> outcomes[i].url]
         /\ ChecksIssued(SubSeq(fetchLog, 1, j)) = i

C19_Witness ==
  /\ pc = "fetching"
  /\ Len(outcomes) = 2 /\ ChecksIssued(fetchLog) = 3
  /\ \E i \in 1..2 : outcomes[i].outcome.kind # "response"

\* C20: between the end of a page check and the start of the next one a
\* fixed delay of PACING_MS elapses, the same whether the page was healthy,
\* broken by status, timed out or failed in transport.
C20_FixedPacing ==
  /\ \A i \in 1..Len(paceLog) : paceLog[i] = PACING_MS
  /\ Len(paceLog) = (IF pc = "pacing" THEN Len(outcomes) - 1 ELSE Len(outcomes))
  /\ pc = "fetching" => Len(paceLog) = ChecksIssued(fetchLog) - 1

C20_Witness ==
  /\ pc = "fetching" /\ Len(paceLog) = 2
  /\ outcomes[1].outcome = [kind |-> "response", status |-> 200]
  /\ outcomes[2].outcome.kind \in {"abort", "error"}

\* C21: parseXmlSitemap caps the depth of its recursion into nested sitemap
\* indexes, so an index that lists itself, or a cycle of indexes, is not
\* followed forever: the calls nested in one another stay fewer than MaxDepth.
C21_RecursionCapped == Len(callStack) < MaxDepth

\* C22: findAndParseSitemaps never throws. A probe location that answers
\* with a status that is not ok, whose fetch is rejected, or whose document is
\* malformed or of an unrecognized shape adds no URL; the next location is
\* still tried, and the URLs collected before are kept and returned.
FailedProbes == {resp \in ProbeResponses : ProbeFailed(resp)}

SitemapFetches(log) == SelectSeq(log, LAMBDA f : f.kind = "sitemap")

C22_DiscoveryRecovers ==
  [][/\ \A resp \in FailedProbes :
          SitemapProbe(resp) =>
            IF probeIdx < Len(sitemapLocations)
            THEN collected' = collected /\ probeIdx' = probeIdx + 1 /\ pc' = "probe"
            ELSE sitemapUrls' = DedupeByKey(collected) /\ pc' = "select"
     /\ (pc = "probing" /\ pc' = "select") =>
          [i \in 1..Len(SitemapFetches(fetchLog')) |-> SitemapFetches(fetchLog')[i].url]
            = sitemapLocations
     /\ (pc \in {"resolve", "probe", "probing"}) => (pc' # "threw" /\ thrown' = <<>>)]_vars

C22_Witness ==
  /\ pc = "select" /\ probeFailed
  /\ Len(sitemapLocations) = 3 /\ Len(SitemapFetches(fetchLog)) = 3
  /\ sitemapUrls # <<>>

\* C23: normalizeUrl keeps the path as it is given: two URLs that differ only
\* in the letter case of the path, or only in a slash at the end of the path,
\* have different keys.
C23_PathPreserved ==
  (npc = "done" /\ nRel = "path") =>
    /\ ParseUrl(nUrl).ok /\ ParseUrl(nAlt).ok
    /\ nKey # nAltKey

\* C24: normalizeUrl is total: for every input string it returns a string and
\* never throws, and an input that cannot be parsed as a URL is returned
\* unchanged.
C24_NormalizeTotal ==
  npc = "done" =>
    /\ nKey \in Seq(STRING) /\ nAltKey \in Seq(STRING) /\ nKey2 \in Seq(STRING)
    /\ ~ParseUrl(nUrl).ok => (nKey = nUrl /\ nKey2 = nUrl)
    /\ ~ParseUrl(nAlt).ok => nAltKey = nAlt

C24_Witness ==
  /\ npc = "done" /\ nRel = "raw"
  /\ nUrl = <<"http", ":", "/", "/", "a", ":", "x">>
  /\ ~ParseUrl(nUrl).ok /\ nKey = nUrl

\* C25: extractUrlsFromPage returns same-domain targets only: every URL of
\* its list is an href resolved against the base URL, absolute, with the
\* hostname of the base URL; no string is in the list twice; an href that
\* cannot be resolved is skipped and the other anchors are still returned.
ResolvedHrefs ==
  { Href(ResolveHref(eHrefs[i], eBase)) :
      i \in {j \in 1..Len(eHrefs) : eHrefs[j] # <<>> /\ ResolveHref(eHrefs[j], eBase).ok} }

C25_SameDomainLinks ==
  epc = "done" =>
    /\ \A i \in 1..Len(eOut) :
         /\ eOut[i] \in ResolvedHrefs
         /\ ParseUrl(eOut[i]).ok
         /\ ParseUrl(eOut[i]).hostname = ParseUrl(eBase).hostname
    /\ \A i, j \in 1..Len(eOut) : eOut[i] = eOut[j] => i = j
    /\ \A u \in ResolvedHrefs :
         ParseUrl(u).hostname = ParseUrl(eBase).hostname =>
           \E i \in 1..Len(eOut) : eOut[i] = u

C25_Witness ==
  /\ epc = "done"
  /\ eBase = <<"http", ":", "/", "/", "a", "/">>
  /\ eHrefs = <<PageEnX, PageOther, <<"/", "en", "/", "y">> >>
  /\ eOut = <<PageEnX, PageEnY>>

\* C26: for a base URL that is no sitemap URL, findAndParseSitemaps probes
\* <root>sitemap.xml, <root>sitemap_index.xml and <origin>/sitemap.xml, in
\* this order, and every probed URL has the hostname of the base URL, also
\* when the base URL has no final slash; a base URL that ends with
\* sitemap.xml or sitemap_index.xml is the only location probed.
C26_ProbeLocations ==
  lpc = "done" =>
    IF IsSitemapUrl(lBase)
    THEN lOut = <<lBase>>
    ELSE /\ Len(lOut) = 3
         /\ EndsWith(lOut[1], "sitemap.xml")
         /\ EndsWith(lOut[2], "sitemap_index.xml")
         /\ lOut[3] = Origin(ParseUrl(lBase)) \o <<"/", "sitemap.xml">>
         /\ \A i \in 1..3 :
              /\ ParseUrl(lOut[i]).ok
              /\ ParseUrl(lOut[i]).hostname = ParseUrl(lBase).hostname

\* The URLs of the page checks of a fetch log, in the order of the requests.
CheckedUrls(log) ==
  LET checks == SelectSeq(log, LAMBDA e : e.kind = "check")
  IN [i \in 1..Len(checks) |-> checks[i].url]

\* The normalized keys of the candidate list of the crawl.
CandidateKeys == {normalizeUrl(urlsToCrawl[i]) : i \in 1..Len(urlsToCrawl)}

\* C27: when a crawl has returned, the number of page checks it issued is the
\* number of distinct normalized keys of its candidate list, and no two of
\* its page checks target URLs with the same normalized key.
C27_EachKeyCheckedOnce ==
  pc = "returned" =>
    LET checked == CheckedUrls(fetchLog)
    IN /\ Len(checked) = Cardinality(CandidateKeys)
       /\ \A i, j \in 1..Len(checked) :
            normalizeUrl(checked[i]) = normalizeUrl(checked[j]) => i = j

\* A crawl returned whose candidate list held two URLs with one key and which
\* checked a page.
C27_Witness ==
  /\ pc = "returned"
  /\ Len(urlsToCrawl) > Cardinality(CandidateKeys)
  /\ Len(CheckedUrls(fetchLog)) >= 1

\* C28: when scan-all has answered, exactly one scan_results row is saved for
\* every URL that was registered when the scan started, whether its crawl
\* returned or threw, and the response lists exactly one result per site.
C28_OneResultPerSite ==
  (spc = "responded" /\ scanUrls # <<>>) =>
    /\ \A i \in 1..Len(scanUrls) : Cardinality(ResultsOfUrl(scanUrls[i])) = 1
    /\ scanResponse.kind = "results"
    /\ Len(scanResponse.results) = Len(scanUrls)
    /\ \A i \in 1..Len(scanUrls) :
         /\ scanResponse.results[i].kind = "result"
         /\ scanResponse.results[i].scanResult.urlId = scanUrls[i]

\* C29: in every state reached by requests to add and to remove registered
\* URLs beside a running scan-all, every scan result's urlId is the id of a
\* registered URL and every broken-page row belongs to an existing scan
\* result; a scan that finishes after its site was deleted leaves no orphan.
C29_ReferentialIntegrity ==
  /\ \A i \in 1..Len(scanResults) : scanResults[i].urlId \in registeredUrls
  /\ \A j \in 1..Len(brokenPageRows) :
       \E i \in 1..Len(scanResults) : scanResults[i].id = brokenPageRows[j].resultId

\* The scan of a site ended after the site was removed, its save refused,
\* while the result of another site is stored with its broken pages.
C29_Witness ==
  /\ hasTotalPages
  /\ \E s \in Sites :
       /\ task[s] = "rejected" /\ s \notin registeredUrls
       /\ crawlOutcome[s].kind = "returned"
  /\ scanResults # <<>> /\ brokenPageRows # <<>>

\* The rows of a scan_results table that belong to other URLs than id.
OtherResults(results, id) == SelectSeq(results, LAMBDA r : r.urlId # id)

\* The rows of a broken_pages table that belong to none of the results ids.
OtherPages(pages, ids) == SelectSeq(pages, LAMBDA q : q.resultId \notin ids)

\* C30: removeRegisteredUrl(id) is an atomic cascade: after the DELETE request
\* no registered URL, no scan result and no broken page of id remains, the
\* records of every other registered URL are unchanged, and the handler
\* answers success exactly if a URL with that id was registered, 404 if not.
C30_RemoveCascades ==
  [][\A id \in DeleteIds \ {0} :
       DeleteRequest(id) =>
         /\ id \notin registeredUrls'
         /\ urlRow'[id] = NoRow
         /\ \A i \in 1..Len(scanResults') : scanResults'[i].urlId # id
         /\ \A j \in 1..Len(brokenPageRows') :
              brokenPageRows'[j].resultId \notin ResultIdsOf(id)
         /\ registeredUrls' \ {id} = registeredUrls \ {id}
         /\ \A s \in Sites \ {id} : urlRow'[s] = urlRow[s]
         /\ OtherResults(scanResults', id) = OtherResults(scanResults, id)
         /\ OtherPages(brokenPageRows', ResultIdsOf(id))
              = OtherPages(brokenPageRows, ResultIdsOf(id))
         /\ (urlsResponse'.kind = "removed") <=> (id \in registeredUrls)
         /\ (urlsResponse'.status = 404) <=> (id \notin registeredUrls)]_vars

\* A removal answered with success deleted a stored result and its broken
\* pages while another URL keeps its result and broken pages.
C30_Witness ==
  /\ urlsResponse.kind = "removed"
  /\ resultSeq > Len(scanResults)
  /\ Cardinality({brokenPageRows[j].resultId : j \in 1..Len(brokenPageRows)}) = 1
  /\ \E i \in 1..Len(scanResults) : scanResults[i].id < resultSeq
  /\ scanResults # <<>> /\ registeredUrls # {}

============================================================================
